---- MODULE Spec2Model ----
\* Candidate assembly and response merging of the trait solver
\* (compiler/rustc_trait_selection/src/solve/assembly/mod.rs), and the socket
\* control messages of library/std/src/os/unix/net/ancillary.rs.
EXTENDS Integers, Sequences, FiniteSets, TLC

\* ------------------------------------------------------------------ bounds

\* Longest candidate list handed to merge_candidates in SpecMerge.
MaxCands == 3

\* ------------------------------------------------------------- data model

\* SolverMode
Normal == "Normal"
Coherence == "Coherence"
SolverMode == {Normal, Coherence}

\* Certainty: Yes | Maybe(MaybeCause::Ambiguity) | Maybe(MaybeCause::Overflow)
Yes == "Yes"
MaybeAmbiguity == "MaybeAmbiguity"
MaybeOverflow == "MaybeOverflow"
Certainty == {Yes, MaybeAmbiguity, MaybeOverflow}

\* Certainty::AMBIGUOUS
AMBIGUOUS == MaybeAmbiguity

\* The residual (inference and region) constraints of a response, abstracted to
\* a name; "none" is a response without constraints.
Constraints == {"none", "c1"}

\* CanonicalResponse: a certainty and the residual constraints, compared as a value.
CanonicalResponse == [certainty : Certainty, constraints : Constraints]

\* The responses the merge specification draws from.
MergeResponses ==
    { r \in CanonicalResponse : r.certainty = Yes \/ r.constraints = "none" }

\* QueryResult = Result<CanonicalResponse, NoSolution>
NoSolution == [tag |-> "NoSolution", resp |-> [certainty |-> "-", constraints |-> "-"]]
Ok(r) == [tag |-> "Ok", resp |-> r]
IsOk(q) == q.tag = "Ok"

\* CandidateSource
ImplIds == {"impl_a", "impl_b"}
Impl(id) == [kind |-> "Impl", idx |-> id]
BuiltinImpl == [kind |-> "BuiltinImpl", idx |-> "-"]
ParamEnv(i) == [kind |-> "ParamEnv", idx |-> i]
AliasBound == [kind |-> "AliasBound", idx |-> "-"]
MergeSources ==
    {Impl(id) : id \in ImplIds} \cup {BuiltinImpl, ParamEnv(0), AliasBound}

\* Candidate { source, result }
Candidate(s, r) == [source |-> s, result |-> r]
MergeCandidates == [source : MergeSources, result : MergeResponses]

\* ------------------------------------------------------ sequence helpers

\* The filter of merge_candidates: ParamEnv(_) | AliasBound.
IsParamEnvSource(c) == c.source.kind \in {"ParamEnv", "AliasBound"}

RECURSIVE FilterParamEnv(_)
\* iter().filter(..): the ParamEnv and AliasBound candidates of s, in order.
FilterParamEnv(s) ==
    IF s = <<>> THEN <<>>
    ELSE LET rest == FilterParamEnv(Tail(s))
         IN IF IsParamEnvSource(Head(s)) THEN <<Head(s)>> \o rest ELSE rest

\* iter().map(|c| c.result).collect()
ResponsesOf(cands) == [i \in 1..Len(cands) |-> cands[i].result]

\* ------------------------------------------------------------ merge engine

\* EvalCtxt::try_merge_responses: None for no responses, the common response
\* when all responses are mutually consistent, None otherwise.
\* The Option is a set: {} is None, {r} is Some(r).
try_merge_responses(responses) ==
    IF Len(responses) = 0 THEN {}
    ELSE IF \A i \in 1..Len(responses) : responses[i] = responses[1]
         THEN {responses[1]}
         ELSE {}

\* EvalCtxt::make_ambiguous_response_no_constraints
make_ambiguous_response_no_constraints(cause) ==
    [certainty |-> cause, constraints |-> "none"]

\* EvalCtxt::flounder: no proof at all for no responses, ambiguity otherwise.
flounder(responses) ==
    IF Len(responses) = 0 THEN NoSolution
    ELSE Ok(make_ambiguous_response_no_constraints(MaybeAmbiguity))

\* Mutant: the ParamEnv priority is applied whatever the solver mode.
merge_candidates_any_mode(mode, candidates) ==
    LET responses == ResponsesOf(candidates)
        all == try_merge_responses(responses)
        param_env_responses == ResponsesOf(FilterParamEnv(candidates))
        sub == try_merge_responses(param_env_responses)
    IN IF all # {} THEN [result |-> Ok(CHOOSE r \in all : TRUE), consulted |-> FALSE]
       ELSE IF sub # {} THEN [result |-> Ok(CHOOSE r \in sub : TRUE), consulted |-> TRUE]
       ELSE [result |-> flounder(responses), consulted |-> TRUE]

\* Mutant: the shortcut takes the first ParamEnv/AliasBound response unmerged.
merge_candidates_first_param_env(mode, candidates) ==
    LET responses == ResponsesOf(candidates)
        all == try_merge_responses(responses)
        param_env_responses == ResponsesOf(FilterParamEnv(candidates))
    IN IF all # {} THEN [result |-> Ok(CHOOSE r \in all : TRUE), consulted |-> FALSE]
       ELSE IF mode = Normal /\ Len(param_env_responses) > 0
            THEN [result |-> Ok(param_env_responses[1]), consulted |-> TRUE]
            ELSE [result |-> flounder(responses), consulted |-> mode = Normal]

\* Mutant: the ParamEnv priority is tried before the complete merge.
merge_candidates_priority_first(mode, candidates) ==
    LET responses == ResponsesOf(candidates)
        all == try_merge_responses(responses)
        param_env_responses == ResponsesOf(FilterParamEnv(candidates))
        sub == try_merge_responses(param_env_responses)
    IN IF mode = Normal /\ sub # {}
       THEN [result |-> Ok(CHOOSE r \in sub : TRUE), consulted |-> TRUE]
       ELSE IF all # {} THEN [result |-> Ok(CHOOSE r \in all : TRUE), consulted |-> mode = Normal]
       ELSE [result |-> flounder(responses), consulted |-> mode = Normal]

\* Mutant: the ParamEnv priority is left out.
merge_candidates_no_shortcut(mode, candidates) ==
    LET responses == ResponsesOf(candidates)
        all == try_merge_responses(responses)
    IN IF all # {} THEN [result |-> Ok(CHOOSE r \in all : TRUE), consulted |-> FALSE]
       ELSE [result |-> flounder(responses), consulted |-> FALSE]

\* Mutant: candidates that cannot be merged count as no solution.
merge_candidates_conflict_fails(mode, candidates) ==
    LET responses == ResponsesOf(candidates)
        all == try_merge_responses(responses)
        param_env_responses == ResponsesOf(FilterParamEnv(candidates))
        sub == try_merge_responses(param_env_responses)
    IN IF all # {} THEN [result |-> Ok(CHOOSE r \in all : TRUE), consulted |-> FALSE]
       ELSE IF mode = Coherence THEN [result |-> NoSolution, consulted |-> FALSE]
       ELSE IF sub # {} THEN [result |-> Ok(CHOOSE r \in sub : TRUE), consulted |-> TRUE]
       ELSE [result |-> NoSolution, consulted |-> TRUE]

\* Mutant: a subset with no ParamEnv/AliasBound response merges trivially.
merge_candidates_empty_subset_merges(mode, candidates) ==
    LET responses == ResponsesOf(candidates)
        all == try_merge_responses(responses)
        param_env_responses == ResponsesOf(FilterParamEnv(candidates))
        sub == try_merge_responses(param_env_responses)
    IN IF all # {} THEN [result |-> Ok(CHOOSE r \in all : TRUE), consulted |-> FALSE]
       ELSE IF mode = Coherence THEN [result |-> flounder(responses), consulted |-> FALSE]
       ELSE IF Len(param_env_responses) = 0
            THEN [result |-> Ok([certainty |-> Yes, constraints |-> "none"]),
                  consulted |-> TRUE]
       ELSE IF sub # {} THEN [result |-> Ok(CHOOSE r \in sub : TRUE), consulted |-> TRUE]
       ELSE [result |-> flounder(responses), consulted |-> TRUE]

\* EvalCtxt::merge_candidates. `result` is the QueryResult returned; `consulted`
\* records whether control reached the merge of the ParamEnv/AliasBound subset.
merge_candidates(mode, candidates) ==
    LET responses == ResponsesOf(candidates)
        all == try_merge_responses(responses)
        param_env_responses == ResponsesOf(FilterParamEnv(candidates))
        sub == try_merge_responses(param_env_responses)
    IN IF all # {} THEN [result |-> Ok(CHOOSE r \in all : TRUE), consulted |-> FALSE]
       ELSE IF mode = Coherence THEN [result |-> flounder(responses), consulted |-> FALSE]
       ELSE IF sub # {} THEN [result |-> Ok(CHOOSE r \in sub : TRUE), consulted |-> TRUE]
       ELSE [result |-> flounder(responses), consulted |-> TRUE]

\* --------------------------------------------------------- assembly: data

\* The configured recursion limit (search graph overflow data).
RecursionLimit == 2

\* Deepest nesting of projections in a self type.
MaxNest == RecursionLimit

\* ty::TyKind of a self type, as far as assembly distinguishes kinds;
\* the four alias kinds are ty::Alias(Projection | Opaque | Inherent | Weak, _).
AliasKinds == {"Projection", "Opaque", "Inherent", "Weak"}
RigidKinds == {"Adt", "Param", "Dynamic"}

\* A type: its kind and, for a projection <S as Trait>::Assoc, how many
\* projections are nested (nest) over which innermost self type (root).
Ty(k) == [kind |-> k, nest |-> 0, root |-> k]
Proj(n, r) == [kind |-> "Projection", nest |-> n, root |-> r]
Types ==
    {Ty(k) : k \in RigidKinds \cup {"TyVar", "Opaque", "Inherent", "Weak"}}
        \cup {Proj(n, "Param") : n \in 1..MaxNest}
        \cup {Proj(1, "TyVar")}

\* Ty::is_ty_var
is_ty_var(t) == t.kind = "TyVar"
IsAlias(t) == t.kind \in AliasKinds

\* projection_ty.trait_ref(tcx).self_ty(): the self type of the owning trait
\* reference of a projection.
proj_self_ty(t) == IF t.nest = 1 THEN Ty(t.root) ELSE Proj(t.nest - 1, t.root)

\* Goal<'tcx, G>: the self type and the generic argument of the predicate,
\* which is a rigid type or the inference variable ?Y.
GoalArgs == {"u32", "?Y"}
Goal(t, a) == [self_ty |-> t, args |-> a]

\* The goals of the queries: every self type with a resolved argument, and
\* an unresolved argument with a rigid and with an alias self type.
QueryGoals ==
    {Goal(t, "u32") : t \in Types}
        \cup {Goal(t, "?Y") : t \in {Ty("Adt"), Proj(1, "Param")}}

\* GoalKind::with_self_ty: only the self type is replaced.
with_self_ty(goal, t) == [goal EXCEPT !.self_ty = t]

\* InferCtxt::resolve_vars_if_possible on a goal; `bound` says whether ?Y has
\* been unified with u32 in the current inference context.
resolve_vars_if_possible(goal, bound) ==
    [goal EXCEPT !.args = IF @ = "?Y" /\ bound THEN "u32" ELSE @]

\* The order of the passes in assemble_and_evaluate_candidates.
Passes ==
    <<"normalize", "impl", "builtin", "param_env", "alias_bound", "object_bound",
      "coherence">>
NoContrib == [p \in {Passes[i] : i \in 1..Len(Passes)} |-> <<>>]

\* One activation record of the call stack. `contrib` keeps what each pass
\* contributed, `rules` the builtin rules evaluated and `origins`, for the
\* loop over item bounds, the position of the bound behind each candidate
\* and `validations` the projection validations made for its bounds.
Frame(fn, goal, pc, d, saved) ==
    [fn |-> fn, goal |-> goal, pc |-> pc, candidates |-> <<>>, i |-> 1,
     entry_depth |-> d, saved |-> saved, contrib |-> NoContrib, trait |-> <<>>,
     rules |-> <<>>, origins |-> <<>>, validations |-> <<>>]

\* The return register: None, or the value of the call that just returned.
None == [some |-> FALSE, val |-> <<>>]
Some(v) == [some |-> TRUE, val |-> v]

\* EvalCtxt::evaluate_added_goals_and_make_canonical_response(certainty) with
\* no nested goal added: the certainty itself, without constraints.
evaluate_added_goals_and_make_canonical_response(certainty) ==
    Ok([certainty |-> certainty, constraints |-> "none"])

\* OverflowHandler::with_incremented_depth takes on_overflow when the depth
\* has reached the recursion limit.
depth_reached_limit(d) == d >= RecursionLimit

\* OverflowHandler::with_incremented_depth: the depth inside the scope, and
\* the depth restored when the scope is left.
incremented_depth(d) == d + 1
restored_depth(d) == d - 1

\* ------------------------------------------- control messages: data model

\* size_of::<libc::cmsghdr>() on 64-bit Linux: cmsg_len (size_t, 8 bytes),
\* cmsg_level and cmsg_type (c_int, 4 bytes each).
CMSGHDR_SIZE == 16

\* libc's CMSG_ALIGN: lengths are rounded up to a multiple of size_of::<usize>().
CMSG_ALIGN(len) == ((len + 7) \div 8) * 8
libc_CMSG_LEN(c_len) == CMSG_ALIGN(CMSGHDR_SIZE) + c_len
libc_CMSG_SPACE(c_len) == CMSG_ALIGN(c_len) + CMSG_ALIGN(CMSGHDR_SIZE)

\* The wrappers of ancillary.rs.  c_len is len & 0x7FFFFFFF, which is len for
\* every length below 2^31, the only lengths of this model.
CMSG_LEN(len) ==
    LET c_len == len
        padding == libc_CMSG_LEN(c_len) - c_len
    IN len + padding

CMSG_SPACE(len) ==
    LET c_len == len
        padding == libc_CMSG_SPACE(c_len) - c_len
    IN len + padding

\* The native-endian (little-endian) bytes of an integer, two's complement.
RECURSIVE to_ne_bytes(_, _)
to_ne_bytes(v, n) ==
    IF n = 0 THEN <<>>
    ELSE <<v % 256>> \o to_ne_bytes((v - (v % 256)) \div 256, n - 1)

\* usize::from_ne_bytes of eight bytes.  A value of 2^31 - 1 or more is
\* given as 2^31 - 1: such a value is a cmsg_len that is only compared with
\* the lengths of buffers, all of which are far smaller.
usize_from_ne_bytes(b) ==
    IF b[4] >= 128 \/ \E k \in 5..8 : b[k] # 0
    THEN 2147483647
    ELSE b[1] + 256 * b[2] + 65536 * b[3] + 16777216 * b[4]

\* c_int::from_ne_bytes: four bytes, the top bit of the last one is the sign.
c_int_from_ne_bytes(b) ==
    b[1] + 256 * b[2] + 65536 * b[3]
        + 16777216 * (IF b[4] >= 128 THEN b[4] - 256 ELSE b[4])

\* `&s[..n]` and `&s[n..]`; both panic when n is past the end of s.
SliceInBounds(s, n) == n <= Len(s)
slice_to(s, n) == SubSeq(s, 1, n)
slice_from(s, n) == SubSeq(s, n + 1, Len(s))

Zeroes(n) == [k \in 1..n |-> 0]

\* struct cmsghdr as bytes (sized_to_slice(&hdr)), and back (copy_from).
cmsghdr_to_bytes(hdr) ==
    to_ne_bytes(hdr.cmsg_len, 8) \o to_ne_bytes(hdr.cmsg_level, 4)
        \o to_ne_bytes(hdr.cmsg_type, 4)
cmsghdr_from_bytes(b) ==
    [cmsg_len |-> usize_from_ne_bytes(SubSeq(b, 1, 8)),
     cmsg_level |-> c_int_from_ne_bytes(SubSeq(b, 9, 12)),
     cmsg_type |-> c_int_from_ne_bytes(SubSeq(b, 13, 16))]

ControlMessage(cmsg_len, cmsg_level, cmsg_type, data) ==
    [cmsg_len |-> cmsg_len, cmsg_level |-> cmsg_level, cmsg_type |-> cmsg_type,
     data |-> data]

ControlMessage_new(cmsg_level, cmsg_type, data) ==
    LET cmsg_len == CMSG_LEN(Len(data))
    IN ControlMessage(cmsg_len, cmsg_level, cmsg_type, data)

truncated(cmsg) == cmsg.cmsg_len > CMSG_LEN(Len(cmsg.data))
cmsg_space(cmsg) == CMSG_SPACE(Len(cmsg.data))

\* ControlMessage::copy_to_slice into a destination of dst_len bytes: the
\* header, the data, zero padding.  The assertion and the two split_at_mut
\* calls panic when the destination has another length.
copy_to_slice_computed_len(cmsg, dst_len) ==
    IF dst_len # cmsg_space(cmsg) THEN [panic |-> TRUE, bytes |-> <<>>]
    ELSE [panic |-> FALSE,
          bytes |-> cmsghdr_to_bytes([cmsg_len |-> CMSG_SPACE(Len(cmsg.data)),
                                      cmsg_level |-> cmsg.cmsg_level,
                                      cmsg_type |-> cmsg.cmsg_type])
                        \o cmsg.data
                        \o Zeroes(dst_len - CMSGHDR_SIZE - Len(cmsg.data))]
copy_to_slice(cmsg, dst_len) ==
    IF dst_len # cmsg_space(cmsg) THEN [panic |-> TRUE, bytes |-> <<>>]
    ELSE [panic |-> FALSE,
          bytes |-> cmsghdr_to_bytes([cmsg_len |-> cmsg.cmsg_len,
                                      cmsg_level |-> cmsg.cmsg_level,
                                      cmsg_type |-> cmsg.cmsg_type])
                        \o cmsg.data
                        \o Zeroes(dst_len - CMSGHDR_SIZE - Len(cmsg.data))]

\* ControlMessagesIter::next on the remaining bytes: whether it panicked, the
\* item it returned, and the bytes that remain.
ControlMessagesIter_next_keeps_bytes(bytes) ==
    IF CMSGHDR_SIZE > Len(bytes)
    THEN [panic |-> FALSE, item |-> None, bytes |-> bytes]
    ELSE [panic |-> FALSE,
          item |-> Some(ControlMessage(0, 0, 0, <<>>)),
          bytes |-> bytes]
ControlMessagesIter_next(bytes) ==
    IF CMSGHDR_SIZE > Len(bytes)
    THEN [panic |-> FALSE, item |-> None, bytes |-> bytes]
    ELSE LET hdr == cmsghdr_from_bytes(slice_to(bytes, CMSGHDR_SIZE))
             hdr_cmsg_len == hdr.cmsg_len
             cmsg_bytes == IF hdr_cmsg_len >= Len(bytes) THEN bytes
                           ELSE slice_to(bytes, hdr_cmsg_len)
         IN IF ~SliceInBounds(cmsg_bytes, CMSGHDR_SIZE)
            THEN [panic |-> TRUE, item |-> None, bytes |-> bytes]
            ELSE LET cmsg_data == slice_from(cmsg_bytes, CMSGHDR_SIZE)
                     cmsg_space_ == CMSG_SPACE(Len(cmsg_data))
                 IN [panic |-> FALSE,
                     item |-> Some(ControlMessage(hdr_cmsg_len, hdr.cmsg_level,
                                                  hdr.cmsg_type, cmsg_data)),
                     bytes |-> IF cmsg_space_ >= Len(bytes) THEN <<>>
                               ELSE slice_from(bytes, cmsg_space_)]

\* AncillaryData::new over a borrowed buffer.
AncillaryData_new(control_messages_buf) ==
    [cmsgs_buf |-> control_messages_buf,
     cmsgs_len |-> 0,
     cmsgs_buf_fully_initialized |-> control_messages_buf = <<>>,
     scm_rights_received |-> FALSE,
     scm_rights_max_len |-> None]

\* AncillaryData::control_messages: the initialized part of the buffer.
AncillaryData_control_messages(a) == slice_to(a.cmsgs_buf, a.cmsgs_len)

\* AncillaryData::add_cmsg (add_control_message converts and calls it).
AncillaryData_add_cmsg_no_room_for_exact_fit(a, cmsg) ==
    LET cmsg_len == cmsg_space(cmsg)
    IN IF a.cmsgs_len + cmsg_len >= Len(a.cmsgs_buf)
       THEN [result |-> "AncillaryDataNoCapacity", ad |-> a]
       ELSE [result |-> "Ok",
             ad |-> [a EXCEPT !.cmsgs_buf = slice_to(@, a.cmsgs_len)
                                  \o copy_to_slice(cmsg, cmsg_len).bytes
                                  \o slice_from(@, a.cmsgs_len + cmsg_len),
                              !.cmsgs_len = @ + cmsg_len]]
AncillaryData_add_cmsg(a, cmsg) ==
    LET cmsg_len == cmsg_space(cmsg)
    IN IF a.cmsgs_len + cmsg_len > Len(a.cmsgs_buf)
       THEN [result |-> "AncillaryDataNoCapacity", ad |-> a]
       ELSE LET copied == copy_to_slice(cmsg, cmsg_len)
            IN IF copied.panic \/ Len(copied.bytes) # cmsg_len
               THEN [result |-> "panic", ad |-> a]
               ELSE [result |-> "Ok",
                     ad |-> [a EXCEPT !.cmsgs_buf = slice_to(@, a.cmsgs_len)
                                          \o copied.bytes
                                          \o slice_from(@, a.cmsgs_len + cmsg_len),
                                      !.cmsgs_len = @ + cmsg_len]]

\* AncillaryDataBuf::control_messages: the whole Vec.
AncillaryDataBuf_control_messages(v) == v

\* AncillaryDataBuf::add_cmsg: reserve, copy into the spare capacity, set_len.
AncillaryDataBuf_add_cmsg(v, cmsg) ==
    LET cmsg_len == cmsg_space(cmsg)
        copied == copy_to_slice(cmsg, cmsg_len)
    IN IF copied.panic \/ Len(copied.bytes) # cmsg_len
       THEN [result |-> "panic", buf |-> v]
       ELSE [result |-> "Ok", buf |-> v \o copied.bytes]


VARIABLES
    mode,       \* EvalCtxt::solver_mode()
    stack,      \* the call stack of assembly and validation
    depth,      \* the recursion depth counter of the search graph
    inferred,   \* whether ?Y is unified with u32 in the inference context
    db,         \* answers of the collaborators (declarations, bounds, sub-goals), once given
    ret,        \* the return register
    status,     \* "running", "done", "panicked"
    evals,      \* normalization sub-goals evaluated so far
    last,       \* the step taken last
    m_cands,    \* SpecMerge: the candidate list given to merge_candidates
    m_pc,       \* SpecMerge: "call" or "done"
    m_out,      \* SpecMerge: what merge_candidates returned for m_cands
    m_first,    \* SpecMerge: what merge_candidates returned for the first order
    m_swaps,    \* SpecMerge: whether the list has been reordered since
    query,      \* the goal the caller asks about
    calls,      \* how many times the caller has asked
    first,      \* SpecTwice: what the first call returned
    ad,         \* an AncillaryData: its fields, cmsgs_buf as the bytes of the borrowed buffer
    adb,        \* an AncillaryDataBuf: the bytes of its Vec cmsgs_buf
    added,      \* the control messages added so far, in order, and the container in use
    add_result, \* what the last add_control_message returned
    iter,       \* a ControlMessagesIter: its bytes, and what it has yielded
    rx          \* SpecReceive: the last operation on ad, the received-fds iterator, history

solver == <<mode, stack, depth, inferred, db, ret, status, evals, last>>
merger == <<m_cands, m_pc, m_out, m_first, m_swaps>>
client == <<query, calls, first>>
ancillary == <<ad, adb, added, add_result, iter, rx>>
vars == <<mode, stack, depth, inferred, db, ret, status, evals, last,
          m_cands, m_pc, m_out, m_first, m_swaps, query, calls, first,
          ad, adb, added, add_result, iter, rx>>

\* ------------------------------------------ control messages: idle state

\* No received-fds iterator: AncillaryDataReceivedFds has not been asked for.
NoFdsIter == [live |-> FALSE, buf |-> [some |-> FALSE, from |-> 0, to |-> 0], count |-> 0]
\* The history kept for the receive operations: the operation done last, its
\* argument and outcome, whether control_messages_buf() has been called since
\* the AncillaryData was made and since the last set_control_messages_len,
\* whether a length has been set that no control_messages_buf() has reset, how
\* often the buffer has been lent out, the fds yielded from the buffer since
\* it was lent out last, and the bytes the buffer held when ownership of its
\* fds was taken.
RxIdle ==
    [op |-> "none", arg |-> 0, outcome |-> "none", origin |-> "none",
     lent_since |-> FALSE, len_set |-> FALSE, lends |-> 0, fds |-> NoFdsIter,
     taken |-> <<>>, orig |-> <<>>]

IterIdle == [status |-> "idle", bytes |-> <<>>, orig |-> <<>>, yielded |-> <<>>]
NothingAdded(container) == [container |-> container, cmsgs |-> <<>>, attempt |-> None]

AncillaryIdle ==
    /\ ad = AncillaryData_new(<<>>)
    /\ adb = <<>>
    /\ added = NothingAdded("none")
    /\ add_result = "none"
    /\ iter = IterIdle
    /\ rx = RxIdle

\* -------------------------------------------------- merge specification

RECURSIVE SeqsUpTo(_, _)
\* The sequences over S of length at most n.
SeqsUpTo(S, n) ==
    IF n = 0 THEN {<<>>}
    ELSE LET shorter == SeqsUpTo(S, n - 1)
         IN shorter \cup {Append(s, x) : s \in {q \in shorter : Len(q) = n - 1}, x \in S}

NoOut == [result |-> NoSolution, consulted |-> FALSE]

SolverIdle ==
    /\ stack = <<>>
    /\ depth = 0
    /\ inferred = FALSE
    /\ db = <<>>
    /\ ret = None
    /\ status = "done"
    /\ evals = 0
    /\ last = "idle"
    /\ query = <<>>
    /\ calls = 0
    /\ first = None

InitMerge ==
    /\ mode \in SolverMode
    /\ m_cands \in SeqsUpTo(MergeCandidates, MaxCands)
    /\ m_pc = "call"
    /\ m_out = NoOut
    /\ m_first = NoOut
    /\ m_swaps = FALSE
    /\ SolverIdle
    /\ AncillaryIdle

\* A caller hands its candidate list to merge_candidates.
MergeCall ==
    /\ m_pc = "call"
    /\ m_out' = merge_candidates(mode, m_cands)
    /\ m_first' = m_out'
    /\ m_pc' = "done"
    /\ UNCHANGED <<m_cands, m_swaps, solver, client, ancillary>>

\* The same candidates in another order: two neighbours swapped, merged again.
MergeReordered ==
    /\ m_pc = "done"
    /\ \E i \in 1..(Len(m_cands) - 1) :
        /\ m_cands' = [m_cands EXCEPT ![i] = m_cands[i + 1], ![i + 1] = m_cands[i]]
        /\ m_cands' # m_cands
    /\ m_out' = merge_candidates(mode, m_cands')
    /\ m_swaps' = TRUE
    /\ UNCHANGED <<m_first, m_pc, solver, client, ancillary>>

NextMerge == MergeCall \/ MergeReordered

SpecMerge == InitMerge /\ [][NextMerge]_vars


\* ------------------------------------------------- assembly: collaborators

\* The answers of the collaborators are fixed for one query: an answer is
\* chosen when it is first asked for and remembered in db. The declarations,
\* bounds and traits answer alike for every goal of the query; the result of
\* normalization is an answer per alias type.
Reveal(key, Options) == IF key \in DOMAIN db THEN {db[key]} ELSE Options
Remember(key, v) == IF key \in DOMAIN db THEN db ELSE (key :> v) @@ db

RespYes == [certainty |-> Yes, constraints |-> "none"]
RespYesConstrained == [certainty |-> Yes, constraints |-> "c1"]

\* try_evaluate_added_goals on the normalizes-to sub-goal of an alias: failure,
\* or success with the type found for the placeholder (a type variable when it
\* stays unresolved); either way the sub-goal may have unified ?Y with u32
\* before it ended.
NormTargets(t) ==
    IF t.kind = "Projection" THEN {t, Ty("Adt"), Ty("TyVar")}
    ELSE IF t.kind = "Opaque" THEN {Ty("Adt"), Ty("Dynamic")}
    ELSE {Ty("Param")}
NormOptions(goal) ==
    {[tag |-> "NoSolution", ty |-> goal.self_ty, binds |-> b] :
        b \in IF goal.args = "?Y" THEN BOOLEAN ELSE {FALSE}} \cup
    {[tag |-> "Ok", ty |-> x, binds |-> b] :
        x \in NormTargets(goal.self_ty),
        b \in IF goal.args = "?Y" THEN BOOLEAN ELSE {FALSE}}

\* for_each_relevant_impl_treating_projections with consider_impl_candidate:
\* the result for each relevant impl, in the order visited.
ImplIdSeq == <<"impl_a", "impl_b">>
ImplOptions == {<<>>, <<NoSolution, Ok(RespYesConstrained)>>}

\* A trait, as far as the builtin dispatch tells traits apart: whether
\* tcx.trait_is_auto and tcx.trait_is_alias hold of it and which lang item it
\* is ("none" when it is no lang item of the dispatch table).
Tr(auto, alias, lang) == [auto |-> auto, alias |-> alias, lang |-> lang]
OtherTrait == Tr(FALSE, FALSE, "none")
AutoTrait == Tr(TRUE, FALSE, "none")
Lang(item) == Tr(FALSE, FALSE, item)

\* The traits of the goals of a query; the last is a lang item that is also
\* an auto trait.
TraitOptions ==
    {OtherTrait, AutoTrait, Lang("Sized"), Lang("Unsize"), Tr(TRUE, FALSE, "Sized")}

\* The result of a rule of the dispatch table whose decision lies with the
\* structure of the self type, which this model leaves open.
RuleOptions == {NoSolution, Ok(RespYes)}

\* consider_builtin_dyn_upcast_candidates: one response per eligible
\* supertrait instantiation.
UpcastOptions == {<<>>, <<RespYes, RespYesConstrained>>}

\* Mutant: an opaque alias bound is trusted whatever the reveal mode.
validate_opaque_any_reveal(reveal) ==
    evaluate_added_goals_and_make_canonical_response(Yes)

\* validate_alias_bound_self_from_param_env for an opaque self type.
validate_opaque(reveal) ==
    IF reveal = "UserFacing"
    THEN evaluate_added_goals_and_make_canonical_response(Yes)
    ELSE NoSolution

\* Mutant: the auto trait rule is not disqualified by an impl.
consider_auto_trait_candidate_not_disqualified(goal, impls, structural) == structural

\* consider_auto_trait_candidate: the rule is suppressed when an impl may
\* apply to the self type (impls: the results for the relevant impls), else
\* it is decided by the structure of the self type.
consider_auto_trait_candidate(goal, impls, structural) ==
    IF Len(impls) > 0 THEN NoSolution ELSE structural

\* consider_builtin_sized_candidate: decided by the kind of the self type.
consider_builtin_sized_candidate(goal) ==
    IF goal.self_ty.kind \in {"Adt", "Param"} THEN Ok(RespYes) ELSE NoSolution

\* consider_builtin_pointee_candidate: Pointee is always implemented.
consider_builtin_pointee_candidate(goal) == Ok(RespYes)

\* consider_builtin_discriminant_kind_candidate: DiscriminantKind is
\* implemented for every type.
consider_builtin_discriminant_kind_candidate(goal) == Ok(RespYes)

\* goal.param_env.caller_bounds(): for each bound whether as_clause() is None
\* ("nonclause"), or it is a clause that cannot be matched against the goal
\* ("nomatch"), or a clause whose match is the answer of consider_implied_clause.
CallerBoundsOptions == {<<>>, <<"nonclause", "match", "nomatch", "match">>}

\* consider_implied_clause of a caller bound against a goal.
EnvMatchOptions == {NoSolution, Ok(RespYes)}

\* tcx.item_bounds(alias): for each bound whether it is a clause and whether
\* probe_and_match_goal_against_assumption equates it with the goal.
ItemBoundsOptions == {<<>>, <<"match", "nonclause", "nomatch", "match">>}

\* The trait owning a projection, as far as the default-item rules tell.
OwnerTraitOptions == {Lang("Sized"), Lang("Pointee"), Lang("DiscriminantKind")}

\* goal.param_env.reveal()
RevealOptions == {"UserFacing", "All"}

\* elaborate(own_bounds).filter_only_self() of a trait object: for each bound
\* whether it is a projection bound, whether it is one of the object's own
\* bounds, and the result of consider_object_bound_candidate.
ObjectBound(proj, own, r) == [proj |-> proj, own |-> own, result |-> r]
ObjectBoundsOptions ==
    {<<>>,
     <<ObjectBound(FALSE, TRUE, Ok(RespYes)),
       ObjectBound(TRUE, FALSE, Ok([certainty |-> MaybeAmbiguity, constraints |-> "c1"])),
       ObjectBound(TRUE, TRUE, NoSolution),
       ObjectBound(FALSE, FALSE, Ok(RespYesConstrained))>>}

\* The match of the caller bounds against a goal is asked for only when some
\* caller bound is a clause that can match.
HasClause(cb) == \E i \in 1..Len(cb) : cb[i] = "match"
EnvMatch(cb) ==
    IF HasClause(cb) THEN Reveal(<<"env">>, EnvMatchOptions) ELSE {NoSolution}
RememberEnv(cb, r) ==
    IF HasClause(cb)
    THEN (<<"caller_bounds">> :> cb) @@ (<<"env">> :> r) @@ db
    ELSE (<<"caller_bounds">> :> cb) @@ db

\* ------------------------------------------------- assembly: the passes

RECURSIVE impl_candidates_stops_at_failure(_, _)
\* Mutant: the first impl that does not apply ends the enumeration.
impl_candidates_stops_at_failure(results, i) ==
    IF i > Len(results) \/ ~IsOk(results[i]) THEN <<>>
    ELSE <<Candidate(Impl(ImplIdSeq[i]), results[i].resp)>>
            \o impl_candidates_stops_at_failure(results, i + 1)

RECURSIVE impl_candidates(_, _)
\* assemble_impl_candidates: one Impl(id) candidate per impl that succeeds.
impl_candidates(results, i) ==
    IF i > Len(results) THEN <<>>
    ELSE (IF IsOk(results[i])
          THEN <<Candidate(Impl(ImplIdSeq[i]), results[i].resp)>>
          ELSE <<>>) \o impl_candidates(results, i + 1)

\* The lang items of the dispatch table, in the order of its tests, Copy and
\* Clone as one entry and the Fn family as one entry.
LangItems ==
    <<"Sized", "CopyClone", "PointerLike", "FnPtr", "Fn", "Tuple", "Pointee",
      "Future", "Gen", "Unsize", "DiscriminantKind", "Destruct", "Transmute">>

\* The result of the rule named: Sized, Pointee and DiscriminantKind as
\* above, the auto trait rule from the impls, any other from the answer.
rule_result(rule, goal, impls, answer) ==
    IF rule = "auto" THEN consider_auto_trait_candidate(goal, impls, answer)
    ELSE IF rule = "Sized" THEN consider_builtin_sized_candidate(goal)
    ELSE IF rule = "Pointee" THEN consider_builtin_pointee_candidate(goal)
    ELSE IF rule = "DiscriminantKind"
         THEN consider_builtin_discriminant_kind_candidate(goal)
    ELSE answer

\* Candidate { source: CandidateSource::BuiltinImpl, result } for each response.
BuiltinCandidates(responses) ==
    [i \in 1..Len(responses) |-> Candidate(BuiltinImpl, responses[i])]

\* Mutant: the tests of the dispatch table are separate ifs, each pushing.
builtin_dispatch_separate_ifs(trait, goal, impls, answer, upcasts) ==
    LET rules == (IF trait.auto THEN <<"auto">> ELSE <<>>)
                 \o (IF trait.alias THEN <<"alias">> ELSE <<>>)
                 \o (IF \E k \in 1..Len(LangItems) : LangItems[k] = trait.lang
                     THEN <<trait.lang>> ELSE <<>>)
        results == [k \in 1..Len(rules) |-> rule_result(rules[k], goal, impls, answer)]
        ok == SelectSeq(results, IsOk)
    IN [rules |-> rules \o (IF trait.lang = "Unsize" THEN <<"dyn_upcast">> ELSE <<>>),
        candidates |->
            [k \in 1..Len(ok) |-> Candidate(BuiltinImpl, ok[k].resp)]
            \o (IF trait.lang = "Unsize" THEN BuiltinCandidates(upcasts) ELSE <<>>)]

\* assemble_builtin_impl_candidates: the first test of the dispatch table that
\* holds of the trait selects the one rule evaluated, Err(NoSolution) when
\* none holds; a BuiltinImpl candidate when the rule succeeds; for Unsize then
\* one more per response of consider_builtin_dyn_upcast_candidates. `rules`
\* lists the rules evaluated, in order.
builtin_dispatch(trait, goal, impls, answer, upcasts) ==
    LET rule == IF trait.auto THEN "auto"
                ELSE IF trait.alias THEN "alias"
                ELSE IF \E k \in 1..Len(LangItems) : LangItems[k] = trait.lang
                     THEN trait.lang
                ELSE "none"
        result == IF rule = "none" THEN NoSolution
                  ELSE rule_result(rule, goal, impls, answer)
    IN [rules |-> (IF rule = "none" THEN <<>> ELSE <<rule>>)
                  \o (IF trait.lang = "Unsize" THEN <<"dyn_upcast">> ELSE <<>>),
        candidates |->
            (IF IsOk(result) THEN <<Candidate(BuiltinImpl, result.resp)>> ELSE <<>>)
            \o (IF trait.lang = "Unsize" THEN BuiltinCandidates(upcasts) ELSE <<>>)]

\* The candidates assemble_builtin_impl_candidates pushes.
builtin_impl_candidates(trait, goal, impls, answer, upcasts) ==
    builtin_dispatch(trait, goal, impls, answer, upcasts).candidates

\* Whether the rule selected for the trait takes its result from the answer
\* (for an auto trait: what the structure of the self type decides).
NeedsAnswer(trait, impls) ==
    IF trait.auto THEN TRUE
    ELSE trait.alias \/ trait.lang \in {"CopyClone", "PointerLike", "FnPtr", "Fn",
            "Tuple", "Future", "Gen", "Unsize", "Destruct", "Transmute"}

\* consider_implied_clause for the caller bound at position i.
implied_clause_result(caller_bounds, result, i) ==
    IF caller_bounds[i] = "match" THEN result ELSE NoSolution

RECURSIVE param_env_candidates_counts_clauses(_, _, _)
\* Mutant: the index counts the clauses only.
param_env_candidates_counts_clauses(caller_bounds, result, i) ==
    IF i > Len(caller_bounds) THEN <<>>
    ELSE (IF caller_bounds[i] # "nonclause"
             /\ IsOk(implied_clause_result(caller_bounds, result, i))
          THEN <<Candidate(ParamEnv(Cardinality({j \in 1..(i - 1) :
                                        caller_bounds[j] # "nonclause"})),
                           result.resp)>>
          ELSE <<>>) \o param_env_candidates_counts_clauses(caller_bounds, result, i + 1)

RECURSIVE param_env_candidates(_, _, _)
\* assemble_param_env_candidates: a ParamEnv(i) candidate for each caller
\* bound that is a clause and matches, i counting every caller bound from 0.
param_env_candidates(caller_bounds, result, i) ==
    IF i > Len(caller_bounds) THEN <<>>
    ELSE (IF caller_bounds[i] # "nonclause"
             /\ IsOk(implied_clause_result(caller_bounds, result, i))
          THEN <<Candidate(ParamEnv(i - 1), result.resp)>>
          ELSE <<>>) \o param_env_candidates(caller_bounds, result, i + 1)

\* Mutant: validation consults the whole builtin dispatch table.
default_item_candidates_whole_table(trait, goal) ==
    builtin_impl_candidates(trait, goal, <<>>, NoSolution, <<>>)

\* assemble_alias_bound_candidates_for_builtin_impl_default_items
default_item_candidates(trait, goal) ==
    LET result == IF trait.lang = "Pointee" THEN consider_builtin_pointee_candidate(goal)
                  ELSE IF trait.lang = "DiscriminantKind"
                       THEN consider_builtin_discriminant_kind_candidate(goal)
                  ELSE NoSolution
    IN IF IsOk(result) THEN <<Candidate(BuiltinImpl, result.resp)>> ELSE <<>>

RECURSIVE object_bound_candidates_every_bound(_, _)
\* Mutant: the projection bounds reached by elaboration are matched as well.
object_bound_candidates_every_bound(bounds, i) ==
    IF i > Len(bounds) THEN <<>>
    ELSE (IF IsOk(bounds[i].result)
          THEN <<Candidate(BuiltinImpl, bounds[i].result.resp)>>
          ELSE <<>>) \o object_bound_candidates_every_bound(bounds, i + 1)

RECURSIVE object_bound_candidates(_, _)
\* assemble_object_bound_candidates: a BuiltinImpl candidate for each
\* elaborated bound that is kept by the filter and matches.
object_bound_candidates(bounds, i) ==
    IF i > Len(bounds) THEN <<>>
    ELSE (IF ~(bounds[i].proj /\ ~bounds[i].own) /\ IsOk(bounds[i].result)
          THEN <<Candidate(BuiltinImpl, bounds[i].result.resp)>>
          ELSE <<>>) \o object_bound_candidates(bounds, i + 1)

\* Mutant: the answer of trait_ref_is_knowable is not looked at.
coherence_unknowable_candidates_any_answer(m, knowable) ==
    IF m = Normal THEN <<>>
    ELSE LET r == evaluate_added_goals_and_make_canonical_response(AMBIGUOUS)
         IN <<Candidate(BuiltinImpl, r.resp)>>

\* assemble_coherence_unknowable_candidates
coherence_unknowable_candidates(m, knowable) ==
    IF m = Normal \/ knowable THEN <<>>
    ELSE LET r == evaluate_added_goals_and_make_canonical_response(AMBIGUOUS)
         IN <<Candidate(BuiltinImpl, r.resp)>>

\* ---------------------------------------------- assembly: specification

MergerIdle ==
    /\ m_cands = <<>>
    /\ m_pc = "idle"
    /\ m_out = NoOut
    /\ m_first = NoOut
    /\ m_swaps = FALSE

\* A query: one resolved goal handed to assemble_and_evaluate_candidates.
Init ==
    /\ mode \in SolverMode
    /\ query \in QueryGoals
    /\ calls = 1
    /\ first = None
    /\ stack = <<Frame("assemble", query, "entry", 0, FALSE)>>
    /\ depth = 0
    /\ inferred = FALSE
    /\ db = <<>>
    /\ ret = None
    /\ status = "running"
    /\ evals = 0
    /\ last = "init"
    /\ MergerIdle
    /\ AncillaryIdle

Top == stack[Len(stack)]
SetTop(f) == [stack EXCEPT ![Len(stack)] = f]
Pop == SubSeq(stack, 1, Len(stack) - 1)
Running == status = "running" /\ Len(stack) > 0
At(fn, pc) == Running /\ Top.fn = fn /\ Top.pc = pc

\* Mutant: a pass puts its candidates in front of the list.
Extended_prepend(f, pass, cands, pc) ==
    [f EXCEPT !.candidates = cands \o @, !.contrib[pass] = cands, !.pc = pc]

\* Mutant: a pass starts the list afresh.
Extended_overwrite(f, pass, cands, pc) ==
    [f EXCEPT !.candidates = cands, !.contrib[pass] = cands, !.pc = pc]

\* The frame after a pass has pushed cands: the list is only appended to.
Extended(f, pass, cands, pc) ==
    [f EXCEPT !.candidates = @ \o cands, !.contrib[pass] = cands, !.pc = pc]

\* Mutant: a type variable as self type is not intercepted.
AssembleEnter_no_ty_var_check ==
    /\ At("assemble", "entry")
    /\ ret = None
    /\ \E debug_assertions \in BOOLEAN :
        IF debug_assertions /\ Top.goal # resolve_vars_if_possible(Top.goal, inferred)
        THEN /\ status' = "panicked"
             /\ last' = "debug_assert"
             /\ UNCHANGED <<stack, ret>>
        ELSE /\ stack' = SetTop([Top EXCEPT !.pc = "normalize", !.entry_depth = depth])
             /\ last' = "enter"
             /\ UNCHANGED <<status, ret>>
    /\ UNCHANGED <<mode, depth, inferred, db, evals, merger, client, ancillary>>

\* assemble_and_evaluate_candidates, up to the first pass: the assertion that
\* the goal is resolved (checked in builds with debug assertions only) and
\* the early return for a type variable as self type.
AssembleEnter ==
    /\ At("assemble", "entry")
    /\ ret = None
    /\ \E debug_assertions \in BOOLEAN :
        IF debug_assertions /\ Top.goal # resolve_vars_if_possible(Top.goal, inferred)
        THEN /\ status' = "panicked"
             /\ last' = "debug_assert"
             /\ UNCHANGED <<stack, ret>>
        ELSE IF is_ty_var(Top.goal.self_ty)
        THEN LET r == evaluate_added_goals_and_make_canonical_response(AMBIGUOUS)
             IN /\ ret' = Some(<<Candidate(BuiltinImpl, r.resp)>>)
                /\ stack' = Pop
                /\ status' = IF Len(stack) = 1 THEN "done" ELSE status
                /\ last' = "ambiguous_self_ty"
        ELSE /\ stack' = SetTop([Top EXCEPT !.pc = "normalize", !.entry_depth = depth])
             /\ last' = "enter"
             /\ UNCHANGED <<status, ret>>
    /\ UNCHANGED <<mode, depth, inferred, db, evals, merger, client, ancillary>>

\* Mutant: at the recursion limit the pass gives up without a candidate.
AssembleNormalize_silent_overflow ==
    /\ At("assemble", "normalize")
    /\ LET f == Top
           goal == f.goal
       IN IF ~IsAlias(goal.self_ty)
          THEN /\ stack' = SetTop([f EXCEPT !.pc = "impl"])
               /\ last' = "no_alias"
               /\ UNCHANGED <<depth, inferred, db, evals>>
          ELSE IF depth_reached_limit(depth)
          THEN LET r == evaluate_added_goals_and_make_canonical_response(MaybeOverflow)
               IN /\ stack' = SetTop(Extended(f, "normalize", <<>>, "impl"))
                  /\ last' = "overflow"
                  /\ UNCHANGED <<depth, inferred, db, evals>>
          ELSE \E out \in Reveal(<<"norm", goal.self_ty>>, NormOptions(goal)) :
                /\ db' = Remember(<<"norm", goal.self_ty>>, out)
                /\ evals' = evals + 1
                /\ IF out.tag = "NoSolution"
                   THEN /\ stack' = SetTop([f EXCEPT !.pc = "impl"])
                        /\ last' = "normalize_failed"
                        /\ UNCHANGED <<depth, inferred>>
                   ELSE /\ stack' = Append(
                               SetTop([f EXCEPT !.pc = "await_normalized",
                                                !.saved = inferred]),
                               Frame("assemble", with_self_ty(goal, out.ty), "entry",
                                     incremented_depth(depth), inferred))
                        /\ depth' = incremented_depth(depth)
                        /\ inferred' = (inferred \/ out.binds)
                        /\ last' = "normalized"
    /\ UNCHANGED <<mode, ret, status, merger, client, ancillary>>

\* Mutant: what a failed normalization sub-goal bound outlives the probe.
AssembleNormalize_failure_leaks ==
    /\ At("assemble", "normalize")
    /\ LET f == Top
           goal == f.goal
       IN IF ~IsAlias(goal.self_ty)
          THEN /\ stack' = SetTop([f EXCEPT !.pc = "impl"])
               /\ last' = "no_alias"
               /\ UNCHANGED <<depth, inferred, db, evals>>
          ELSE IF depth_reached_limit(depth)
          THEN LET r == evaluate_added_goals_and_make_canonical_response(MaybeOverflow)
               IN /\ stack' = SetTop(Extended(f, "normalize",
                                 <<Candidate(BuiltinImpl, r.resp)>>, "impl"))
                  /\ last' = "overflow"
                  /\ UNCHANGED <<depth, inferred, db, evals>>
          ELSE \E out \in Reveal(<<"norm", goal.self_ty>>, NormOptions(goal)) :
                /\ db' = Remember(<<"norm", goal.self_ty>>, out)
                /\ evals' = evals + 1
                /\ IF out.tag = "NoSolution"
                   THEN /\ stack' = SetTop([f EXCEPT !.pc = "impl"])
                        /\ last' = "normalize_failed"
                        /\ inferred' = (inferred \/ out.binds)
                        /\ UNCHANGED depth
                   ELSE /\ stack' = Append(
                               SetTop([f EXCEPT !.pc = "await_normalized",
                                                !.saved = inferred]),
                               Frame("assemble", with_self_ty(goal, out.ty), "entry",
                                     incremented_depth(depth), inferred))
                        /\ depth' = incremented_depth(depth)
                        /\ inferred' = (inferred \/ out.binds)
                        /\ last' = "normalized"
    /\ UNCHANGED <<mode, ret, status, merger, client, ancillary>>

\* assemble_candidates_after_normalizing_self_ty, up to the recursive call:
\* nothing for a self type that is no alias; in a probe and with the depth
\* incremented, the overflow candidate at the limit, else the normalizes-to
\* sub-goal and, when it holds, the call for the normalized self type.
AssembleNormalize ==
    /\ At("assemble", "normalize")
    /\ LET f == Top
           goal == f.goal
       IN IF ~IsAlias(goal.self_ty)
          THEN /\ stack' = SetTop([f EXCEPT !.pc = "impl"])
               /\ last' = "no_alias"
               /\ UNCHANGED <<depth, inferred, db, evals>>
          ELSE IF depth_reached_limit(depth)
          THEN LET r == evaluate_added_goals_and_make_canonical_response(MaybeOverflow)
               IN /\ stack' = SetTop(Extended(f, "normalize",
                                 <<Candidate(BuiltinImpl, r.resp)>>, "impl"))
                  /\ last' = "overflow"
                  /\ UNCHANGED <<depth, inferred, db, evals>>
          ELSE \E out \in Reveal(<<"norm", goal.self_ty>>, NormOptions(goal)) :
                /\ db' = Remember(<<"norm", goal.self_ty>>, out)
                /\ evals' = evals + 1
                /\ IF out.tag = "NoSolution"
                   THEN /\ stack' = SetTop([f EXCEPT !.pc = "impl"])
                        /\ last' = "normalize_failed"
                        /\ UNCHANGED <<depth, inferred>>
                   ELSE /\ stack' = Append(
                               SetTop([f EXCEPT !.pc = "await_normalized",
                                                !.saved = inferred]),
                               Frame("assemble", with_self_ty(goal, out.ty), "entry",
                                     incremented_depth(depth), inferred))
                        /\ depth' = incremented_depth(depth)
                        /\ inferred' = (inferred \/ out.binds)
                        /\ last' = "normalized"
    /\ UNCHANGED <<mode, ret, status, merger, client, ancillary>>

\* Mutant: the depth is not restored after the recursive call.
AssembleNormalized_no_restore ==
    /\ At("assemble", "await_normalized")
    /\ ret.some
    /\ stack' = SetTop(Extended(Top, "normalize", ret.val, "impl"))
    /\ inferred' = Top.saved
    /\ ret' = None
    /\ last' = "normalized_return"
    /\ UNCHANGED <<mode, depth, db, status, evals, merger, client, ancillary>>

\* Mutant: once the normalized self type has candidates, the alias gets none.
AssembleNormalized_returns_at_once ==
    /\ At("assemble", "await_normalized")
    /\ ret.some
    /\ stack' = SetTop(Extended(Top, "normalize", ret.val, "return"))
    /\ depth' = restored_depth(depth)
    /\ inferred' = Top.saved
    /\ ret' = None
    /\ last' = "normalized_return"
    /\ UNCHANGED <<mode, db, status, evals, merger, client, ancillary>>

\* assemble_candidates_after_normalizing_self_ty, after the recursive call:
\* the depth is decremented, the probe rolled back and the candidates of the
\* normalized self type are appended.
AssembleNormalized ==
    /\ At("assemble", "await_normalized")
    /\ ret.some
    /\ stack' = SetTop(Extended(Top, "normalize", ret.val, "impl"))
    /\ depth' = restored_depth(depth)
    /\ inferred' = Top.saved
    /\ ret' = None
    /\ last' = "normalized_return"
    /\ UNCHANGED <<mode, db, status, evals, merger, client, ancillary>>

\* assemble_impl_candidates
AssembleImpl ==
    /\ At("assemble", "impl")
    /\ \E results \in Reveal(<<"impls">>, ImplOptions) :
        /\ db' = Remember(<<"impls">>, results)
        /\ stack' = SetTop(Extended(Top, "impl", impl_candidates(results, 1), "builtin"))
    /\ last' = "impl"
    /\ UNCHANGED <<mode, depth, inferred, ret, status, evals, merger, client, ancillary>>

\* assemble_builtin_impl_candidates
AssembleBuiltin ==
    /\ At("assemble", "builtin")
    /\ \E trait \in Reveal(<<"trait">>, TraitOptions) :
       LET impls == db[<<"impls">>]
       IN \E answer \in IF NeedsAnswer(trait, impls)
                        THEN Reveal(<<"rule">>, RuleOptions) ELSE {NoSolution} :
          \E upcasts \in IF trait.lang = "Unsize"
                         THEN Reveal(<<"upcast">>, UpcastOptions) ELSE {<<>>} :
            LET out == builtin_dispatch(trait, Top.goal, impls, answer, upcasts)
            IN /\ db' = (<<"trait">> :> trait)
                         @@ (IF NeedsAnswer(trait, impls)
                             THEN (<<"rule">> :> answer) ELSE <<>>)
                         @@ (IF trait.lang = "Unsize"
                             THEN (<<"upcast">> :> upcasts) ELSE <<>>)
                         @@ db
               /\ stack' = SetTop([Extended(Top, "builtin", out.candidates, "param_env")
                                     EXCEPT !.rules = out.rules])
    /\ last' = "builtin"
    /\ UNCHANGED <<mode, depth, inferred, ret, status, evals, merger, client, ancillary>>

\* assemble_param_env_candidates
AssembleParamEnv ==
    /\ At("assemble", "param_env")
    /\ \E cb \in Reveal(<<"caller_bounds">>, CallerBoundsOptions) :
        \E r \in EnvMatch(cb) :
            /\ db' = RememberEnv(cb, r)
            /\ stack' = SetTop(Extended(Top, "param_env",
                                   param_env_candidates(cb, r, 1), "alias_bound"))
    /\ last' = "param_env"
    /\ UNCHANGED <<mode, depth, inferred, ret, status, evals, merger, client, ancillary>>

\* Mutant: inherent associated types and type aliases are not excluded.
HasItemBounds_any_alias(t) == IsAlias(t)

\* Whether assemble_alias_bound_candidates looks at item bounds for this kind
\* of self type: only for ty::Alias(ty::Projection | ty::Opaque, _).
HasItemBounds(t) == t.kind \in {"Projection", "Opaque"}

\* assemble_alias_bound_candidates, called by assemble_and_evaluate_candidates:
\* return for the kinds without item bounds, bug! for a type variable, else
\* the loop over the item bounds of the alias.
AssembleAliasBound ==
    /\ At("assemble", "alias_bound")
    /\ LET t == Top.goal.self_ty
       IN IF is_ty_var(t)
          THEN /\ status' = "panicked"
               /\ last' = "bug_unexpected_self_ty"
               /\ UNCHANGED <<stack, db>>
          ELSE IF ~HasItemBounds(t)
          THEN /\ stack' = SetTop(Extended(Top, "alias_bound", <<>>, "object_bound"))
               /\ last' = "alias_bound_none"
               /\ UNCHANGED <<status, db>>
          ELSE \E bounds \in Reveal(<<"item_bounds">>, ItemBoundsOptions) :
                /\ db' = Remember(<<"item_bounds">>, bounds)
                /\ stack' = Append(SetTop([Top EXCEPT !.pc = "await_alias_bound"]),
                                   Frame("alias_bound", Top.goal, "loop", depth, inferred))
                /\ last' = "alias_bound_loop"
                /\ UNCHANGED status
    /\ UNCHANGED <<mode, depth, inferred, ret, evals, merger, client, ancillary>>

\* The alias_bound frame after the bound at i is dealt with: a candidate is
\* pushed when consider_alias_bound_candidate returned Ok.
AfterBound(f, result) ==
    [f EXCEPT !.i = @ + 1,
              !.pc = "loop",
              !.candidates = IF IsOk(result)
                             THEN Append(@, Candidate(AliasBound, result.resp))
                             ELSE @,
              !.origins = IF IsOk(result) THEN Append(@, f.i - 1) ELSE @]

\* The alias_bound frame after the bound at i has been validated for a
\* projection: validate_alias_bound_self_from_param_env merges the candidates
\* of assemble_param_env_candidates (env), assemble_alias_bound_candidates
\* (nested) and the default items for the goal that the self type of the
\* projection implements its owning trait.
Validated(f, env, nested, owner, trait_goal) ==
    LET param_env_candidates_all ==
            env \o nested \o default_item_candidates(owner, trait_goal)
        result == merge_candidates(mode, param_env_candidates_all).result
    IN [AfterBound(f, result) EXCEPT !.validations =
            Append(@, [candidates |-> param_env_candidates_all,
                       owner |-> owner, result |-> result])]

\* Mutant: validation does not look for a type variable.
self_trait_ref_is_ty_var_unchecked(t) == FALSE

\* validate_alias_bound_self_from_param_env on a projection: whether the self
\* type of the owning trait reference is an unresolved type variable.
self_trait_ref_is_ty_var(t) == is_ty_var(proj_self_ty(t))

\* One turn of the loop of assemble_alias_bound_candidates, with
\* consider_alias_bound_candidate and validate_alias_bound_self_from_param_env
\* up to its call of assemble_alias_bound_candidates for the trait goal.
AliasBoundStep ==
    /\ At("alias_bound", "loop")
    /\ ret = None
    /\ LET f == Top
           t == f.goal.self_ty
           bounds == db[<<"item_bounds">>]
       IN /\ f.i <= Len(bounds)
          /\ IF bounds[f.i] # "match"
             THEN \* no clause, or the clause does not match the goal
                  /\ stack' = SetTop(AfterBound(f, NoSolution))
                  /\ last' = "bound_skipped"
                  /\ UNCHANGED <<db, status>>
             ELSE IF t.kind \notin {"Projection", "Opaque"}
             THEN \* bug!("only expected to be called on alias tys")
                  /\ status' = "panicked"
                  /\ last' = "bug_only_alias_tys"
                  /\ UNCHANGED <<stack, db>>
             ELSE IF t.kind = "Opaque"
             THEN \E reveal \in Reveal(<<"reveal">>, RevealOptions) :
                    /\ db' = Remember(<<"reveal">>, reveal)
                    /\ stack' = SetTop(AfterBound(f, validate_opaque(reveal)))
                    /\ last' = "validate_opaque"
                    /\ UNCHANGED status
             ELSE IF self_trait_ref_is_ty_var(t)
             THEN /\ stack' = SetTop(AfterBound(f,
                           evaluate_added_goals_and_make_canonical_response(AMBIGUOUS)))
                  /\ last' = "validate_ty_var"
                  /\ UNCHANGED <<db, status>>
             ELSE IF is_ty_var(proj_self_ty(t))
             THEN \* assemble_alias_bound_candidates for the trait goal: bug!
                  /\ status' = "panicked"
                  /\ last' = "bug_unexpected_self_ty"
                  /\ UNCHANGED <<stack, db>>
             ELSE LET st == proj_self_ty(t)
                      trait_goal == Goal(st, "u32")
                  IN \E owner \in Reveal(<<"owner_trait">>, OwnerTraitOptions) :
                     \E cb \in Reveal(<<"caller_bounds">>, CallerBoundsOptions) :
                     \E r \in EnvMatch(cb) :
                     \E inner \in IF HasItemBounds(st)
                                  THEN Reveal(<<"item_bounds">>, ItemBoundsOptions)
                                  ELSE {<<>>} :
                        LET env == param_env_candidates(cb, r, 1)
                            known == (<<"owner_trait">> :> owner) @@ RememberEnv(cb, r)
                        IN IF HasItemBounds(st)
                           THEN /\ db' = (<<"item_bounds">> :> inner) @@ known
                                /\ stack' =
                                     SetTop([f EXCEPT !.pc = "await_validate"])
                                     \o <<[Frame("validate", trait_goal, "await_alias_bound",
                                                 depth, inferred)
                                             EXCEPT !.candidates = env, !.trait = owner],
                                          Frame("alias_bound", trait_goal, "loop",
                                                depth, inferred)>>
                                /\ last' = "validate_nested"
                                /\ UNCHANGED status
                           ELSE /\ db' = known
                                /\ stack' = SetTop(Validated(f, env, <<>>, owner, trait_goal))
                                /\ last' = "validate_rigid"
                                /\ UNCHANGED status
    /\ UNCHANGED <<mode, depth, inferred, ret, evals, merger, client, ancillary>>

\* assemble_alias_bound_candidates returns: every item bound has been visited.
AliasBoundDone ==
    /\ At("alias_bound", "loop")
    /\ ret = None
    /\ Top.i > Len(db[<<"item_bounds">>])
    /\ ret' = Some(Top.candidates)
    /\ stack' = Pop
    /\ last' = "alias_bound_done"
    /\ UNCHANGED <<mode, depth, inferred, db, status, evals, merger, client, ancillary>>

\* validate_alias_bound_self_from_param_env after its call of
\* assemble_alias_bound_candidates: the default-item candidates, then
\* merge_candidates of the set; the result goes to the loop that asked.
ValidateReturn ==
    /\ At("validate", "await_alias_bound")
    /\ ret.some
    /\ LET v == Top
           caller == stack[Len(stack) - 1]
       IN stack' = [Pop EXCEPT ![Len(stack) - 1] =
                       Validated(caller, v.candidates, ret.val, v.trait, v.goal)]
    /\ ret' = None
    /\ last' = "validate_return"
    /\ UNCHANGED <<mode, depth, inferred, db, status, evals, merger, client, ancillary>>

\* assemble_and_evaluate_candidates takes the alias-bound candidates.
AssembleAliasBoundReturn ==
    /\ At("assemble", "await_alias_bound")
    /\ ret.some
    /\ stack' = SetTop(Extended(Top, "alias_bound", ret.val, "object_bound"))
    /\ ret' = None
    /\ last' = "alias_bound_return"
    /\ UNCHANGED <<mode, depth, inferred, db, status, evals, merger, client, ancillary>>

\* assemble_object_bound_candidates
AssembleObjectBound ==
    /\ At("assemble", "object_bound")
    /\ LET t == Top.goal.self_ty
       IN IF is_ty_var(t)
          THEN /\ status' = "panicked"
               /\ last' = "bug_unexpected_self_ty"
               /\ UNCHANGED <<stack, db>>
          ELSE IF t.kind # "Dynamic"
          THEN /\ stack' = SetTop(Extended(Top, "object_bound", <<>>, "coherence"))
               /\ last' = "object_bound_none"
               /\ UNCHANGED <<status, db>>
          ELSE \E bounds \in Reveal(<<"object_bounds">>, ObjectBoundsOptions) :
                /\ db' = Remember(<<"object_bounds">>, bounds)
                /\ stack' = SetTop(Extended(Top, "object_bound",
                                       object_bound_candidates(bounds, 1), "coherence"))
                /\ last' = "object_bound"
                /\ UNCHANGED status
    /\ UNCHANGED <<mode, depth, inferred, ret, evals, merger, client, ancillary>>

\* Whether evaluate_added_goals_and_make_canonical_response can be built for
\* the ambiguity candidate of a frame: always for the goal of the query; for a
\* goal assembled inside the probe of self-type normalization it may fail (a
\* universe error, as the comment in the pass says).
UnknowableResponseOptions(f) ==
    IF f.entry_depth = 0
    THEN {evaluate_added_goals_and_make_canonical_response(AMBIGUOUS)}
    ELSE {evaluate_added_goals_and_make_canonical_response(AMBIGUOUS), NoSolution}

\* Mutant: a response that cannot be built is passed over.
coherence_unknowable_on_result_drops(result) ==
    IF IsOk(result) THEN "push" ELSE "skip"

\* assemble_coherence_unknowable_candidates, the match on the result of
\* building the response: push the candidate, or bug!.
coherence_unknowable_on_result(result) ==
    IF IsOk(result) THEN "push" ELSE "bug"

\* assemble_coherence_unknowable_candidates
AssembleCoherenceUnknowable ==
    /\ At("assemble", "coherence")
    /\ IF mode = Normal
       THEN /\ stack' = SetTop(Extended(Top, "coherence", <<>>, "return"))
            /\ last' = "coherence"
            /\ UNCHANGED <<db, status>>
       ELSE \E knowable \in Reveal(<<"knowable">>, BOOLEAN) :
            IF knowable
            THEN /\ db' = Remember(<<"knowable">>, knowable)
                 /\ stack' = SetTop(Extended(Top, "coherence",
                                  coherence_unknowable_candidates(mode, knowable), "return"))
                 /\ last' = "coherence"
                 /\ UNCHANGED status
            ELSE \E built \in Reveal(<<"response", Top.entry_depth>>,
                                     UnknowableResponseOptions(Top)) :
                 /\ db' = (<<"knowable">> :> knowable)
                              @@ (<<"response", Top.entry_depth>> :> built) @@ db
                 /\ IF coherence_unknowable_on_result(built) = "bug"
                    THEN /\ status' = "panicked"
                         /\ last' = "bug_coherence_no_solution"
                         /\ UNCHANGED stack
                    ELSE /\ stack' = SetTop(Extended(Top, "coherence",
                                  IF coherence_unknowable_on_result(built) = "push"
                                  THEN coherence_unknowable_candidates(mode, knowable)
                                  ELSE <<>>, "return"))
                         /\ last' = "coherence"
                         /\ UNCHANGED status
    /\ UNCHANGED <<mode, depth, inferred, ret, evals, merger, client, ancillary>>

\* assemble_and_evaluate_candidates returns the list.
AssembleReturn ==
    /\ At("assemble", "return")
    /\ ret' = Some(Top.candidates)
    /\ stack' = Pop
    /\ status' = IF Len(stack) = 1 THEN "done" ELSE status
    /\ last' = "return"
    /\ UNCHANGED <<mode, depth, inferred, db, evals, merger, client, ancillary>>

Next ==
    \/ AssembleEnter
    \/ AssembleNormalize
    \/ AssembleNormalized
    \/ AssembleImpl
    \/ AssembleBuiltin
    \/ AssembleParamEnv
    \/ AssembleAliasBound
    \/ AliasBoundStep
    \/ AliasBoundDone
    \/ ValidateReturn
    \/ AssembleAliasBoundReturn
    \/ AssembleObjectBound
    \/ AssembleCoherenceUnknowable
    \/ AssembleReturn

Spec == Init /\ [][Next]_vars

\* The caller asks again: a second call of assemble_and_evaluate_candidates
\* for the goal of the query once the first has returned, in the same mode,
\* with the answers of the collaborators and the state of the solver as the
\* first call left them.
CallAgain ==
    /\ status = "done"
    /\ calls = 1
    /\ ret.some
    /\ first' = ret
    /\ calls' = 2
    /\ stack' = <<Frame("assemble", query, "entry", depth, inferred)>>
    /\ ret' = None
    /\ status' = "running"
    /\ last' = "call_again"
    /\ UNCHANGED <<mode, depth, inferred, db, evals, query, merger, ancillary>>

NextTwice == Next \/ CallAgain

SpecTwice == Init /\ [][NextTwice]_vars

\* -------------------------------------- control messages: specifications

\* Largest AncillaryDataBuf the model lets grow.
MaxBytes == 48
\* Most raw control messages in a received byte sequence.
MaxChunks == 2

\* Buffers handed to AncillaryData::new: their lengths, and the byte they
\* happen to hold before anything is written.
Capacities == {0, 16, 24, 48}
FreshFill == {0, 255}

\* Control messages built with ControlMessage::new.
LevelTypes == {<<1, 1>>, <<-1, 2>>}
DataOptions == {<<>>, <<7>>, <<1, 2, 3, 4, 5, 6, 7, 8>>}
Messages == {ControlMessage_new(lt[1], lt[2], d) : lt \in LevelTypes, d \in DataOptions}

InitAncillary ==
    /\ \E cap \in Capacities, fill \in FreshFill :
          ad = AncillaryData_new([k \in 1..cap |-> fill])
    /\ adb = <<>>
    /\ added \in {NothingAdded(c) : c \in {"AncillaryData", "AncillaryDataBuf"}}
    /\ add_result = "none"
    /\ iter = IterIdle
    /\ rx = RxIdle
    /\ mode = Normal
    /\ SolverIdle
    /\ MergerIdle

\* AncillaryData::add_control_message.
AddControlMessage ==
    /\ added.container = "AncillaryData"
    /\ iter.status = "idle"
    /\ add_result # "panic"
    /\ \E cmsg \in Messages :
          LET r == AncillaryData_add_cmsg(ad, cmsg)
          IN /\ ad' = r.ad
             /\ add_result' = r.result
             /\ added' = [added EXCEPT !.attempt = Some(cmsg),
                                       !.cmsgs = IF r.result = "Ok"
                                                 THEN Append(@, cmsg) ELSE @]
    /\ UNCHANGED <<adb, iter, rx, mode, solver, merger, client>>

\* AncillaryDataBuf::add_control_message.
BufAddControlMessage ==
    /\ added.container = "AncillaryDataBuf"
    /\ iter.status = "idle"
    /\ add_result # "panic"
    /\ \E cmsg \in Messages :
          LET r == AncillaryDataBuf_add_cmsg(adb, cmsg)
          IN /\ Len(adb) + cmsg_space(cmsg) <= MaxBytes
             /\ adb' = r.buf
             /\ add_result' = r.result
             /\ added' = [added EXCEPT !.attempt = Some(cmsg),
                                       !.cmsgs = IF r.result = "Ok"
                                                 THEN Append(@, cmsg) ELSE @]
    /\ UNCHANGED <<ad, iter, rx, mode, solver, merger, client>>

\* ControlMessages::iter over bytes.
ControlMessages_iter(bytes) ==
    [status |-> "iterating", bytes |-> bytes, orig |-> bytes, yielded |-> <<>>]

\* control_messages().iter() on the container in use.
IterStart ==
    /\ iter.status = "idle"
    /\ added.container \in {"AncillaryData", "AncillaryDataBuf"}
    /\ add_result # "panic"
    /\ iter' = ControlMessages_iter(
                   IF added.container = "AncillaryData"
                   THEN AncillaryData_control_messages(ad)
                   ELSE AncillaryDataBuf_control_messages(adb))
    /\ UNCHANGED <<ad, adb, added, add_result, rx, mode, solver, merger, client>>

\* One call of ControlMessagesIter::next.
IterNext ==
    /\ iter.status = "iterating"
    /\ LET r == ControlMessagesIter_next(iter.bytes)
       IN iter' = IF r.panic THEN [iter EXCEPT !.status = "panicked"]
                  ELSE IF ~r.item.some THEN [iter EXCEPT !.status = "done", !.bytes = r.bytes]
                  ELSE [iter EXCEPT !.bytes = r.bytes,
                                    !.yielded = Append(@, r.item.val)]
    /\ UNCHANGED <<ad, adb, added, add_result, rx, mode, solver, merger, client>>

NextAncillary == AddControlMessage \/ BufAddControlMessage \/ IterStart \/ IterNext

SpecAncillary == InitAncillary /\ [][NextAncillary]_vars

\* Received bytes: raw control messages whose cmsg_len field need not fit the
\* data that follows, cut at any length.  Every 8-byte window of these bytes
\* is a number below 2^24.
LenFields == {0, 8, 16, 17, 24, 65535}
WireData == {<<>>, <<24, 0, 0, 0, 0, 0, 0, 0>>}
RawCmsg(len, data) ==
    cmsghdr_to_bytes([cmsg_len |-> len, cmsg_level |-> 1, cmsg_type |-> 0]) \o data
RawCmsgs == {RawCmsg(l, d) : l \in LenFields, d \in WireData}

RECURSIVE Flatten(_)
Flatten(ss) == IF ss = <<>> THEN <<>> ELSE Head(ss) \o Flatten(Tail(ss))
Prefixes(s) == {SubSeq(s, 1, n) : n \in 0..Len(s)}
WireInputs == UNION {Prefixes(Flatten(ss)) : ss \in SeqsUpTo(RawCmsgs, MaxChunks)}

\* ControlMessages::from_bytes(bytes).iter() on received bytes.
InitIter ==
    /\ iter \in {ControlMessages_iter(w) : w \in WireInputs}
    /\ ad = AncillaryData_new(<<>>)
    /\ adb = <<>>
    /\ added = NothingAdded("none")
    /\ add_result = "none"
    /\ rx = RxIdle
    /\ mode = Normal
    /\ SolverIdle
    /\ MergerIdle

SpecIter == InitIter /\ [][IterNext]_vars

\* ------------------------------------------------------ claims: merging

AllResponses == ResponsesOf(m_cands)
ParamEnvResponses == ResponsesOf(FilterParamEnv(m_cands))
AmbiguousResponse == [certainty |-> MaybeAmbiguity, constraints |-> "none"]

\* C1: in Coherence mode, when merging all responses fails, merge_candidates
\* ends in the flounder outcome (ambiguity without constraints for a non-empty
\* list), never reaches the ParamEnv/AliasBound subset merge and never answers
\* Yes; so two Impl candidates with conflicting responses yield ambiguity.
C1_CoherenceFlounders ==
    (m_pc = "done" /\ mode = Coherence /\ try_merge_responses(AllResponses) = {}) =>
        /\ ~m_out.consulted
        /\ m_out.result = IF m_cands = <<>> THEN NoSolution ELSE Ok(AmbiguousResponse)
        /\ m_out.result.resp.certainty # Yes

C1_Witness ==
    /\ m_pc = "done"
    /\ mode = Coherence
    /\ Len(m_cands) = 2
    /\ m_cands[1].source = Impl("impl_a")
    /\ m_cands[2].source = Impl("impl_b")
    /\ m_cands[1].result.certainty = Yes
    /\ m_cands[2].result.certainty = Yes
    /\ m_cands[1].result # m_cands[2].result
    /\ m_out.result = Ok(AmbiguousResponse)

C3_FullMergeWins ==
    (m_pc = "done" /\ try_merge_responses(AllResponses) # {}) =>
        /\ ~m_out.consulted
        /\ IsOk(m_out.result)
        /\ \A i \in 1..Len(m_cands) : m_out.result.resp = m_cands[i].result

C3_Witness ==
    /\ m_pc = "done"
    /\ Len(m_cands) = 3
    /\ m_cands[1].source = ParamEnv(0)
    /\ m_cands[2].source.kind = "Impl"
    /\ m_cands[3].source = BuiltinImpl
    /\ m_out.result = Ok(m_cands[2].result)
    /\ ~m_out.consulted

\* C4: merge_candidates returns the same outcome for every order of the same
\* candidates, in both modes.
C4_MergeSymmetric ==
    m_pc = "done" => m_out.result = m_first.result

C4_Witness ==
    /\ m_pc = "done"
    /\ m_swaps
    /\ mode = Normal
    /\ Len(m_cands) = 3
    /\ m_cands[1].source.kind = "Impl"
    /\ m_cands[2].source = AliasBound
    /\ m_cands[3].source = ParamEnv(0)
    /\ m_cands[1].result # m_cands[2].result
    /\ m_out.result = Ok(m_cands[3].result)


\* ----------------------------------------------------- claims: assembly

OverflowCandidate ==
    Candidate(BuiltinImpl, [certainty |-> MaybeOverflow, constraints |-> "none"])
AmbiguousCandidate == Candidate(BuiltinImpl, AmbiguousResponse)

\* The activations on the stack entered by recursion: every call of
\* assemble_and_evaluate_candidates but the first and every call of
\* validate_alias_bound_self_from_param_env.
RecursionNesting ==
    Cardinality({i \in 1..Len(stack) :
        \/ stack[i].fn = "validate"
        \/ stack[i].fn = "assemble" /\ i > 1})

\* C5: resolution stays within the configured recursion limit: the nesting
\* of recursive calls of candidate assembly, through self-type normalization
\* and through alias-bound validation, never exceeds the limit.
C5_RecursionWithinLimit == RecursionNesting <= RecursionLimit

\* C6: a re-entrant assemble_and_evaluate_candidates call sees a depth strictly
\* greater than its caller did, and after
\* assemble_candidates_after_normalizing_self_ty has returned (success,
\* normalization failure or overflow) the depth is what it was on entry.
C6_DepthDiscipline ==
    /\ \A i \in 2..Len(stack) :
        (stack[i].fn = "assemble" /\ stack[i].pc # "entry") =>
            stack[i].entry_depth > stack[i - 1].entry_depth
    /\ (At("assemble", "entry") /\ Len(stack) > 1) =>
            depth > stack[Len(stack) - 1].entry_depth
    /\ (Running /\ Top.fn = "assemble"
            /\ Top.pc \notin {"entry", "normalize", "await_normalized"}) =>
            depth = Top.entry_depth

C6_Witness ==
    /\ At("assemble", "impl")
    /\ last = "normalized_return"
    /\ Len(stack) = 2
    /\ Top.entry_depth = 1
    /\ depth = 1

\* C7: with an alias as self type and the depth at the limit, the
\* normalization pass appends exactly one candidate, BuiltinImpl with
\* Maybe(Overflow), evaluates no normalization sub-goal and makes no
\* recursive call.
C7_OverflowAtLimit ==
    [][(At("assemble", "normalize") /\ IsAlias(Top.goal.self_ty)
            /\ depth >= RecursionLimit) =>
        /\ Len(stack') = Len(stack)
        /\ stack'[Len(stack)].candidates = Append(Top.candidates, OverflowCandidate)
        /\ stack'[Len(stack)].contrib["normalize"] = <<OverflowCandidate>>
        /\ evals' = evals
        /\ db' = db
        /\ depth' = depth]_vars

C7_Witness ==
    /\ At("assemble", "impl")
    /\ last = "overflow"
    /\ Top.candidates = <<OverflowCandidate>>
    /\ depth = RecursionLimit
    /\ evals = RecursionLimit

\* C8: for a type variable as self type assemble_and_evaluate_candidates
\* returns exactly one candidate, BuiltinImpl with Maybe(Ambiguous), and no
\* enumeration pass runs on such a goal, in either mode.
C8_TyVarIsAmbiguous ==
    /\ last = "ambiguous_self_ty" => ret = Some(<<AmbiguousCandidate>>)
    /\ \A i \in 1..Len(stack) :
        (stack[i].fn = "assemble" /\ is_ty_var(stack[i].goal.self_ty)) =>
            /\ stack[i].pc = "entry"
            /\ stack[i].candidates = <<>>
            /\ stack[i].contrib = NoContrib

C8_Witness ==
    /\ last = "ambiguous_self_ty"
    /\ status = "done"
    /\ mode = Coherence
    /\ ret = Some(<<AmbiguousCandidate>>)
    /\ db = <<>>

Asked(key, default) == IF key \in DOMAIN db THEN db[key] ELSE default

\* What the passes give for the goal of frame f, in the order of the passes,
\* from the answers of the collaborators; the candidates of the two recursive
\* passes are those the calls returned.
InPassOrder(f) ==
    f.contrib["normalize"]
    \o impl_candidates(Asked(<<"impls">>, <<>>), 1)
    \o builtin_impl_candidates(Asked(<<"trait">>, OtherTrait), f.goal,
            Asked(<<"impls">>, <<>>), Asked(<<"rule">>, NoSolution),
            Asked(<<"upcast">>, <<>>))
    \o param_env_candidates(Asked(<<"caller_bounds">>, <<>>), Asked(<<"env">>, NoSolution), 1)
    \o f.contrib["alias_bound"]
    \o (IF f.goal.self_ty.kind = "Dynamic"
        THEN object_bound_candidates(Asked(<<"object_bounds">>, <<>>), 1)
        ELSE <<>>)
    \o coherence_unknowable_candidates(mode, Asked(<<"knowable">>, TRUE))

\* C9: for a self type that is no type variable the list returned by
\* assemble_and_evaluate_candidates is the concatenation of the candidates of
\* self-type normalization, impls, builtin rules, param-env, alias bounds,
\* object bounds and coherence-unknowable, in this order (empty when no pass
\* contributes).
C9_PassOrder ==
    \A i \in 1..Len(stack) :
        (stack[i].fn = "assemble" /\ stack[i].pc = "return") =>
            stack[i].candidates = InPassOrder(stack[i])

C9_Witness ==
    /\ At("assemble", "return")
    /\ mode = Coherence
    /\ Top.contrib["normalize"] # <<>>
    /\ Top.contrib["impl"] # <<>>
    /\ Top.contrib["param_env"] # <<>>
    /\ Top.contrib["alias_bound"] # <<>>
    /\ Top.contrib["coherence"] # <<>>
    /\ Len(Top.candidates) >= 5

\* C10: every goal passed to assemble_and_evaluate_candidates is resolved:
\* goal == resolve_vars_if_possible(goal), also for the recursive call after
\* self-type normalization.
C10_GoalsResolved ==
    \A i \in 1..Len(stack) :
        (stack[i].fn = "assemble" /\ stack[i].pc = "entry") =>
            stack[i].goal = resolve_vars_if_possible(stack[i].goal, inferred)

\* C11: the coherence-unknowable pass contributes nothing in Normal mode and
\* nothing in Coherence mode when trait_ref_is_knowable answers Ok; in
\* Coherence mode with an unknowable trait reference it contributes exactly
\* one candidate, BuiltinImpl with Maybe(Ambiguous).
C11_CoherenceUnknowable ==
    \A i \in 1..Len(stack) :
        (stack[i].fn = "assemble" /\ stack[i].pc = "return") =>
            stack[i].contrib["coherence"] =
                IF mode = Coherence /\ ~Asked(<<"knowable">>, TRUE)
                THEN <<AmbiguousCandidate>>
                ELSE <<>>

C11_Witness ==
    /\ At("assemble", "return")
    /\ mode = Coherence
    /\ <<"knowable">> \in DOMAIN db
    /\ ~db[<<"knowable">>]
    /\ Top.contrib["coherence"] = <<AmbiguousCandidate>>
    /\ Top.candidates[Len(Top.candidates)] = AmbiguousCandidate

SingleRules(f) == SelectSeq(f.rules, LAMBDA r : r # "dyn_upcast")

\* C13: the builtin dispatch evaluates exactly one rule of its table for a
\* trait of the table (none for any other trait) and pushes at most one
\* BuiltinImpl candidate from it; only for Unsize it then pushes one
\* BuiltinImpl candidate per response of consider_builtin_dyn_upcast_candidates,
\* after the single-result candidate.
C13_OneRulePerTrait ==
    \A i \in 1..Len(stack) :
        (stack[i].fn = "assemble" /\ stack[i].pc = "return") =>
            LET f == stack[i]
                tr == db[<<"trait">>]
                pushed == f.contrib["builtin"]
                upcasts == IF tr.lang = "Unsize" THEN db[<<"upcast">>] ELSE <<>>
                single == Len(pushed) - Len(upcasts)
            IN /\ Len(SingleRules(f)) =
                    IF tr.auto \/ tr.alias \/ tr.lang # "none" THEN 1 ELSE 0
               /\ Len(f.rules) - Len(SingleRules(f)) = IF tr.lang = "Unsize" THEN 1 ELSE 0
               /\ Len(pushed) >= Len(upcasts)
               /\ single <= 1
               /\ \A k \in 1..Len(pushed) : pushed[k].source = BuiltinImpl
               /\ \A k \in 1..Len(upcasts) : pushed[single + k].result = upcasts[k]

C13_Witness ==
    /\ At("assemble", "return")
    /\ db[<<"trait">>] = Lang("Unsize")
    /\ Top.rules = <<"Unsize", "dyn_upcast">>
    /\ Top.contrib["builtin"] =
         <<Candidate(BuiltinImpl, RespYes), Candidate(BuiltinImpl, RespYes),
           Candidate(BuiltinImpl, RespYesConstrained)>>

\* C14: every candidate of alias-bound enumeration carries in its source the
\* position of the item bound that produced it, so that two candidates from
\* different bounds of the same alias have distinguishable sources.
C14_AliasBoundIndexed ==
    \A i \in 1..Len(stack) :
        stack[i].fn = "alias_bound" =>
            \A j, k \in 1..Len(stack[i].candidates) :
                stack[i].origins[j] # stack[i].origins[k] =>
                    stack[i].candidates[j].source # stack[i].candidates[k].source

\* The candidates frame f held before its alias-bound pass.
BeforeAliasBound(f) ==
    f.contrib["normalize"] \o f.contrib["impl"] \o f.contrib["builtin"]
        \o f.contrib["param_env"]

\* C15: alias-bound enumeration contributes candidates only for a Projection
\* or Opaque self type: for every other kind of self type, Inherent and Weak
\* aliases included, and for an alias whose item has no declared bounds, it
\* contributes nothing and leaves the candidate list as it was.
C15_AliasBoundOnlyForAliases ==
    \A i \in 1..Len(stack) :
        LET f == stack[i]
        IN /\ (/\ f.fn = "assemble"
               /\ f.pc \in {"object_bound", "coherence", "return"}
               /\ \/ f.goal.self_ty.kind \notin {"Projection", "Opaque"}
                  \/ Asked(<<"item_bounds">>, <<>>) = <<>>) =>
                   /\ f.contrib["alias_bound"] = <<>>
                   /\ f.pc = "object_bound" => f.candidates = BeforeAliasBound(f)
           /\ f.fn = "alias_bound" => f.goal.self_ty.kind \in {"Projection", "Opaque"}

C15_Witness ==
    /\ At("assemble", "object_bound")
    /\ Top.goal.self_ty.kind = "Inherent"
    /\ Top.contrib["normalize"] # <<>>
    /\ Top.contrib["param_env"] # <<>>
    /\ Top.contrib["alias_bound"] = <<>>
    /\ Top.candidates = BeforeAliasBound(Top)

\* C16: validation of a projection alias bound proves that the self type
\* implements the owning trait from the candidates of param-env enumeration,
\* of alias-bound enumeration and of the builtin rules for Pointee and
\* DiscriminantKind alone: no Impl candidate and no candidate of another
\* builtin rule is in the set, and the result is merge_candidates of the set.
C16_ValidationCandidates ==
    \A i \in 1..Len(stack) :
        \A k \in 1..Len(stack[i].validations) :
            LET v == stack[i].validations[k]
                builtin == {j \in 1..Len(v.candidates) :
                               v.candidates[j].source = BuiltinImpl}
            IN /\ \A j \in 1..Len(v.candidates) :
                    v.candidates[j].source.kind \in {"ParamEnv", "AliasBound", "BuiltinImpl"}
               /\ builtin # {} => v.owner.lang \in {"Pointee", "DiscriminantKind"}
               /\ Cardinality(builtin) <= 1
               /\ v.result = merge_candidates(mode, v.candidates).result

C16_Witness ==
    /\ At("alias_bound", "loop")
    /\ Top.goal.self_ty = Proj(2, "Param")
    /\ Len(Top.validations) = 1
    /\ db[<<"impls">>] # <<>>
    /\ LET v == Top.validations[1]
       IN /\ Len(v.candidates) >= 3
          /\ v.candidates[1].source.kind = "ParamEnv"
          /\ \E j \in 1..Len(v.candidates) : v.candidates[j].source = AliasBound
          /\ v.candidates[Len(v.candidates)].source = BuiltinImpl
          /\ v.owner = Lang("DiscriminantKind")
          /\ v.result = Ok(RespYes)

\* The item bounds of the alias visited by frame f that match the goal.
MatchesVisited(f) ==
    {k \in 1..(f.i - 1) : db[<<"item_bounds">>][k] = "match"}

\* C17: validation of an opaque alias bound depends on the reveal mode of the
\* param-env alone: with Reveal::UserFacing it succeeds with certainty Yes,
\* with Reveal::All it fails, so that no AliasBound candidate is produced for
\* an opaque self type in Reveal::All.
C17_OpaqueReveal ==
    \A i \in 1..Len(stack) :
        LET f == stack[i]
        IN /\ (f.fn = "alias_bound" /\ f.goal.self_ty.kind = "Opaque") =>
                IF Asked(<<"reveal">>, "All") = "All"
                THEN f.candidates = <<>>
                ELSE /\ Len(f.candidates) = Cardinality(MatchesVisited(f))
                     /\ \A k \in 1..Len(f.candidates) :
                            f.candidates[k] = Candidate(AliasBound, RespYes)
           /\ (/\ f.fn = "assemble"
               /\ f.goal.self_ty.kind = "Opaque"
               /\ Asked(<<"reveal">>, "All") = "All") =>
                   f.contrib["alias_bound"] = <<>>

C17_Witness ==
    /\ At("assemble", "object_bound")
    /\ last = "alias_bound_return"
    /\ Top.goal.self_ty.kind = "Opaque"
    /\ db[<<"item_bounds">>] # <<>>
    /\ db[<<"reveal">>] = "All"
    /\ Top.contrib["alias_bound"] = <<>>

\* Neither the merge of all responses nor, in Normal mode, the merge of the
\* ParamEnv/AliasBound responses succeeds for m_cands.
NoMergeSucceeds ==
    /\ try_merge_responses(AllResponses) = {}
    /\ mode = Coherence \/ try_merge_responses(ParamEnvResponses) = {}

MaybeCertainty == {MaybeAmbiguity, MaybeOverflow}

\* C18 as stated: when neither the full merge nor (in Normal mode) the
\* ParamEnv/AliasBound subset merge succeeds, merge_candidates reports
\* ambiguity (certainty Maybe) and not failure, for every candidate list.
C18_AmbiguityForEveryList ==
    (m_pc = "done" /\ NoMergeSucceeds) =>
        /\ IsOk(m_out.result)
        /\ m_out.result.resp.certainty \in MaybeCertainty

\* C18 as amended: when neither merge succeeds, merge_candidates reports
\* ambiguity (certainty Maybe) and not failure for every candidate list that
\* is not empty; for the empty list it reports NoSolution.
C18_AmbiguityForNonEmptyList ==
    (m_pc = "done" /\ NoMergeSucceeds) =>
        IF m_cands = <<>>
        THEN m_out.result = NoSolution
        ELSE /\ IsOk(m_out.result)
             /\ m_out.result.resp.certainty \in MaybeCertainty

C18_Witness ==
    /\ m_pc = "done"
    /\ mode = Normal
    /\ Len(m_cands) = 3
    /\ m_cands[1].source = ParamEnv(0)
    /\ m_cands[2].source = AliasBound
    /\ m_cands[3].source = BuiltinImpl
    /\ m_cands[1].result # m_cands[2].result
    /\ m_out.consulted
    /\ m_out.result = Ok(AmbiguousResponse)

IsPrefix(a, b) == Len(a) <= Len(b) /\ SubSeq(b, 1, Len(a)) = a

\* C19: every candidate of the list returned by
\* assemble_and_evaluate_candidates carries the response its rule evaluation
\* produced: a step of a pass only appends to the list of its activation and
\* never changes, reorders or removes a candidate appended before; the
\* candidates a recursive call returned are appended as returned, and the
\* list is returned as it stands.
C19_CandidatesOnlyAppended ==
    [][/\ \A i \in 1..Len(stack) :
            (i <= Len(stack') /\ stack'[i].fn = stack[i].fn) =>
                IsPrefix(stack[i].candidates, stack'[i].candidates)
       /\ (Running /\ Top.fn = "assemble" /\ ret.some) =>
            stack'[Len(stack)].candidates = Top.candidates \o ret.val
       /\ At("assemble", "return") => ret' = Some(Top.candidates)]_vars

C19_Witness ==
    /\ status = "done"
    /\ last = "return"
    /\ ret.some
    /\ Len(ret.val) >= 5
    /\ ret.val[1] = OverflowCandidate
    /\ \E k \in 2..Len(ret.val) : ret.val[k].source.kind = "Impl"
    /\ \E k \in 2..Len(ret.val) : ret.val[k].source.kind = "ParamEnv"
    /\ \E k \in 2..Len(ret.val) : ret.val[k].source = AliasBound

C21_NextNeverFaults == iter.status # "panicked"

\* C22: ControlMessagesIter::next returns None exactly when fewer bytes remain
\* than one header holds; a call that returns a message leaves strictly fewer
\* bytes, so the messages yielded and the bytes left never exceed the bytes
\* the iteration started with, and the iteration ends.
C22_NextShortens ==
    [][iter.status = "iterating" =>
          /\ (iter'.status = "done") <=> (Len(iter.bytes) < CMSGHDR_SIZE)
          /\ Len(iter'.yielded) > Len(iter.yielded) =>
                Len(iter'.bytes) < Len(iter.bytes)
          /\ Len(iter'.yielded) + Len(iter'.bytes) <= Len(iter.orig)]_vars

C22_Witness ==
    /\ iter.status = "done"
    /\ Len(iter.yielded) = 2
    /\ Len(iter.bytes) > 0
    /\ Len(iter.bytes) < CMSGHDR_SIZE

\* C23: AncillaryData::add_control_message returns AncillaryDataNoCapacity
\* exactly when cmsgs_len + CMSG_SPACE(data length) exceeds the length of the
\* buffer, and then changes nothing; otherwise it writes the message at offset
\* cmsgs_len, adds CMSG_SPACE(data length) to cmsgs_len and changes nothing
\* else.
C23_AddControlMessage ==
    [][(added.container = "AncillaryData" /\ iter' = iter /\ added'.attempt.some) =>
          LET cmsg == added'.attempt.val
              space == CMSG_SPACE(Len(cmsg.data))
              at == ad.cmsgs_len
              no_capacity == at + space > Len(ad.cmsgs_buf)
              hdr == cmsghdr_from_bytes(SubSeq(ad'.cmsgs_buf, at + 1, at + CMSGHDR_SIZE))
          IN /\ (add_result' = "AncillaryDataNoCapacity") <=> no_capacity
             /\ no_capacity => ad' = ad
             /\ ~no_capacity =>
                   /\ add_result' = "Ok"
                   /\ ad'.cmsgs_len = at + space
                   /\ hdr.cmsg_len = cmsg.cmsg_len
                   /\ hdr.cmsg_level = cmsg.cmsg_level
                   /\ hdr.cmsg_type = cmsg.cmsg_type
                   /\ SubSeq(ad'.cmsgs_buf, at + CMSGHDR_SIZE + 1,
                             at + CMSGHDR_SIZE + Len(cmsg.data)) = cmsg.data
                   /\ Len(ad'.cmsgs_buf) = Len(ad.cmsgs_buf)
                   /\ \A k \in 1..Len(ad.cmsgs_buf) :
                         (k <= at \/ k > at + space) => ad'.cmsgs_buf[k] = ad.cmsgs_buf[k]
                   /\ ad' = [ad EXCEPT !.cmsgs_buf = ad'.cmsgs_buf,
                                       !.cmsgs_len = ad'.cmsgs_len]]_vars

C23_Witness ==
    /\ add_result = "AncillaryDataNoCapacity"
    /\ Len(added.cmsgs) = 2
    /\ ad.cmsgs_len = Len(ad.cmsgs_buf)
    /\ ad.cmsgs_len = 48

\* C24: the control messages built with ControlMessage::new and added in order
\* to an AncillaryDataBuf, or to an AncillaryData with room for them, come
\* back from control_messages().iter() in the same number and order, each with
\* its level, type and data bytes, and none truncated.
C24_RoundTrip ==
    /\ iter.status # "panicked"
    /\ Len(iter.yielded) <= Len(added.cmsgs)
    /\ \A i \in 1..Len(iter.yielded) :
          /\ iter.yielded[i].cmsg_level = added.cmsgs[i].cmsg_level
          /\ iter.yielded[i].cmsg_type = added.cmsgs[i].cmsg_type
          /\ iter.yielded[i].data = added.cmsgs[i].data
          /\ ~truncated(iter.yielded[i])
    /\ iter.status = "done" => Len(iter.yielded) = Len(added.cmsgs)

C24_Witness ==
    /\ iter.status = "done"
    /\ Len(iter.yielded) = 2
    /\ iter.yielded[1].data = <<7>>
    /\ iter.yielded[2].cmsg_level = -1
    /\ iter.yielded[2].data = <<1, 2, 3, 4, 5, 6, 7, 8>>

\* ------------------------------------------- claims: the passes, one by one

PastNormalize ==
    {"impl", "builtin", "param_env", "alias_bound", "await_alias_bound",
     "object_bound", "coherence", "return"}

\* The frame has evaluated the normalization sub-goal of its alias self type
\* and the sub-goal has failed.
NormalizationFailed(f) ==
    /\ f.fn = "assemble"
    /\ f.pc \in PastNormalize
    /\ IsAlias(f.goal.self_ty)
    /\ ~depth_reached_limit(f.entry_depth)
    /\ <<"norm", f.goal.self_ty>> \in DOMAIN db
    /\ db[<<"norm", f.goal.self_ty>>].tag = "NoSolution"

\* What passes 2 to 7 give for the goal of frame f.
LaterPasses(f) == InPassOrder([f EXCEPT !.contrib["normalize"] = <<>>])

\* C25: when the normalization sub-goal of the self type fails, the pass ends
\* without a candidate and with the inference state and the depth as they were
\* before it, whatever the sub-goal had bound; the list the frame returns is
\* the one passes 2 to 7 give for the goal.
C25_FailedNormalizationLeavesNoTrace ==
    [][/\ (At("assemble", "normalize") /\ last' = "normalize_failed") =>
             /\ inferred' = inferred
             /\ depth' = depth
             /\ stack' = SetTop([Top EXCEPT !.pc = "impl"])
             /\ Top.candidates = <<>>
       /\ \A i \in 1..Len(stack) :
             NormalizationFailed(stack[i]) =>
                /\ stack[i].contrib["normalize"] = <<>>
                /\ stack[i].pc = "return" => stack[i].candidates = LaterPasses(stack[i])]_vars

C25_Witness ==
    /\ At("assemble", "return")
    /\ NormalizationFailed(Top)
    /\ db[<<"norm", Top.goal.self_ty>>].binds
    /\ ~inferred
    /\ Len(Top.candidates) >= 2

\* C26: for an alias self type, whether the normalization of the self type
\* succeeded, failed or overflowed, the impl, builtin, param-env, alias-bound,
\* object-bound and coherence passes run on the goal with the alias itself: the
\* list returned is what the normalization pass gave (the candidates of the
\* normalized self type, the overflow candidate, or nothing) followed by the
\* candidates of these passes for the alias.
C26_AliasPassesAlwaysRun ==
    \A i \in 1..Len(stack) :
        LET f == stack[i]
            n == Len(f.contrib["normalize"])
        IN (f.fn = "assemble" /\ f.pc = "return" /\ IsAlias(f.goal.self_ty)) =>
              /\ Len(f.candidates) = n + Len(LaterPasses(f))
              /\ SubSeq(f.candidates, 1, n) = f.contrib["normalize"]
              /\ SubSeq(f.candidates, n + 1, Len(f.candidates)) = LaterPasses(f)
              /\ depth_reached_limit(f.entry_depth) =>
                    f.contrib["normalize"] = <<OverflowCandidate>>
              /\ NormalizationFailed(f) => n = 0

C26_Witness ==
    /\ At("assemble", "return")
    /\ Len(stack) = 1
    /\ IsAlias(Top.goal.self_ty)
    /\ <<"norm", Top.goal.self_ty>> \in DOMAIN db
    /\ db[<<"norm", Top.goal.self_ty>>].tag = "Ok"
    /\ Len(Top.contrib["normalize"]) >= 1
    /\ Len(Top.contrib["impl"]) >= 1
    /\ Len(Top.contrib["alias_bound"]) >= 1

\* The caller bounds asked for, and the position (from 0) a candidate's source
\* names.
CallerBounds == Asked(<<"caller_bounds">>, <<>>)
EnvPositions(cands) == [k \in 1..Len(cands) |-> cands[k].source.idx]

\* C27: the param-env pass goes through the caller bounds in order and pushes
\* a candidate ParamEnv(i) exactly for those bounds that are clauses and match
\* the goal, i being the position among all caller bounds; a bound that is no
\* clause or does not match gives nothing, and no position gives two
\* candidates.
C27_ParamEnvPositions ==
    \A n \in 1..Len(stack) :
        LET f == stack[n]
            c == f.contrib["param_env"]
            r == Asked(<<"env">>, NoSolution)
            Matching == {i \in 1..Len(CallerBounds) :
                            CallerBounds[i] = "match" /\ IsOk(r)}
        IN (f.fn = "assemble" /\ f.pc \in PastNormalize \ {"impl", "builtin", "param_env"}) =>
              /\ \A k \in 1..Len(c) : c[k].source.kind = "ParamEnv" /\ c[k].result = r.resp
              /\ {EnvPositions(c)[k] + 1 : k \in 1..Len(c)} = Matching
              /\ \A k, l \in 1..Len(c) : k < l => EnvPositions(c)[k] < EnvPositions(c)[l]

C27_Witness ==
    /\ At("assemble", "alias_bound")
    /\ CallerBounds = <<"nonclause", "match", "nomatch", "match">>
    /\ Top.contrib["param_env"] =
          <<Candidate(ParamEnv(1), RespYes), Candidate(ParamEnv(3), RespYes)>>

\* C28: the impl pass pushes one candidate Impl(id) for every relevant impl
\* for which consider_impl_candidate succeeds, with its response; an impl
\* that gives NoSolution pushes nothing, raises no error and does not keep the
\* impls after it from being considered.
C28_ImplEnumeration ==
    /\ status = "panicked" => last # "impl"
    /\ \A n \in 1..Len(stack) :
        LET f == stack[n]
            c == f.contrib["impl"]
            results == Asked(<<"impls">>, <<>>)
            Succeeding == {i \in 1..Len(results) : IsOk(results[i])}
        IN (f.fn = "assemble" /\ f.pc \in PastNormalize \ {"impl"}) =>
              /\ Len(c) = Cardinality(Succeeding)
              /\ \A i \in Succeeding :
                    \E k \in 1..Len(c) :
                        c[k] = Candidate(Impl(ImplIdSeq[i]), results[i].resp)

C28_Witness ==
    /\ At("assemble", "builtin")
    /\ db[<<"impls">>] = <<NoSolution, Ok(RespYesConstrained)>>
    /\ Top.contrib["impl"] = <<Candidate(Impl("impl_b"), RespYesConstrained)>>

\* The elaborated bounds of a trait object that the object-bound pass hands to
\* consider_object_bound_candidate: all but the projection bounds that are not
\* among the object's own bounds.
ConsideredObjectBounds(bounds) == SelectSeq(bounds, LAMBDA b : ~b.proj \/ b.own)
MatchedObjectBounds(bounds) ==
    SelectSeq(ConsideredObjectBounds(bounds), LAMBDA b : IsOk(b.result))

\* C29: the object-bound pass contributes only for a Dynamic self type; of the
\* elaborated bounds, a projection bound that is not one of the object's own
\* bounds never gives a candidate, every other bound (each elaborated trait
\* bound among them) gives one when it matches, and every candidate of the
\* pass has source BuiltinImpl.
C29_ObjectBounds ==
    \A n \in 1..Len(stack) :
        LET f == stack[n]
            c == f.contrib["object_bound"]
            bounds == Asked(<<"object_bounds">>, <<>>)
            matched == MatchedObjectBounds(bounds)
        IN (f.fn = "assemble" /\ f.pc \in {"coherence", "return"}) =>
              /\ f.goal.self_ty.kind # "Dynamic" => c = <<>>
              /\ \A k \in 1..Len(c) : c[k].source = BuiltinImpl
              /\ f.goal.self_ty.kind = "Dynamic" =>
                    /\ Len(c) = Len(matched)
                    /\ \A k \in 1..Len(c) : c[k].result = matched[k].result.resp
                    /\ \A k \in 1..Len(c), i \in 1..Len(bounds) :
                          (bounds[i].proj /\ ~bounds[i].own) =>
                              c[k].result # bounds[i].result.resp

C29_Witness ==
    /\ At("assemble", "coherence")
    /\ Top.goal.self_ty.kind = "Dynamic"
    /\ Len(Asked(<<"object_bounds">>, <<>>)) = 4
    /\ Top.contrib["object_bound"] =
          <<Candidate(BuiltinImpl, RespYes), Candidate(BuiltinImpl, RespYesConstrained)>>

\* The response of the ambiguity candidate could not be built at some depth.
UnknowableResponseFailed ==
    \E d \in 0..MaxNest :
        /\ <<"response", d>> \in DOMAIN db
        /\ ~IsOk(db[<<"response", d>>])

\* C30: in Coherence mode, when building the response of the unknowable
\* ambiguity candidate gives NoSolution, the pass ends in bug!: the solver has
\* panicked in that pass, and the frame has neither got a candidate from the
\* pass nor gone on with an empty contribution.
C30_NoSolutionIsFatal ==
    UnknowableResponseFailed =>
        /\ mode = Coherence
        /\ status = "panicked"
        /\ last = "bug_coherence_no_solution"
        /\ Top.fn = "assemble"
        /\ Top.pc = "coherence"
        /\ Top.contrib["coherence"] = <<>>
        /\ ret = None

C30_Witness ==
    /\ UnknowableResponseFailed
    /\ status = "panicked"
    /\ Len(stack) = 2
    /\ stack[1].pc = "await_normalized"
    /\ Len(Top.candidates) >= 1

\* ---------------------------------------------- claims: type variables

\* The passes whose match on the kind of the self type ends in bug! for a
\* type variable.
BugBranchPasses == {"alias_bound", "await_alias_bound", "object_bound"}

\* C31: the bug!("unexpected self type") branches of the alias-bound and the
\* object-bound pass are never taken for an unresolved type variable: a goal
\* with such a self type has left assemble_and_evaluate_candidates before the
\* passes, also in the recursive call after normalization, and validation
\* answers before it assembles for a trait goal with such a self type.
C31_TyVarNeverReachesBug ==
    /\ last # "bug_unexpected_self_ty"
    /\ \A i \in 1..Len(stack) :
          /\ (stack[i].fn = "assemble" /\ stack[i].pc \in BugBranchPasses) =>
                ~is_ty_var(stack[i].goal.self_ty)
          /\ stack[i].fn \in {"alias_bound", "validate"} =>
                ~is_ty_var(stack[i].goal.self_ty)

\* A type variable found by normalization has been intercepted in the
\* recursive call, and the passes of the alias go on.
C31_Witness ==
    /\ At("assemble", "object_bound")
    /\ Top.goal.self_ty.kind = "Projection"
    /\ <<"norm", Top.goal.self_ty>> \in DOMAIN db
    /\ db[<<"norm", Top.goal.self_ty>>].ty = Ty("TyVar")
    /\ Top.contrib["normalize"] = <<AmbiguousCandidate>>

\* The loop of assemble_alias_bound_candidates is at a matching bound of a
\* projection whose owning trait reference has a type variable as self type.
AtTyVarOwner ==
    /\ At("alias_bound", "loop")
    /\ ret = None
    /\ Top.i <= Len(db[<<"item_bounds">>])
    /\ db[<<"item_bounds">>][Top.i] = "match"
    /\ Top.goal.self_ty.kind = "Projection"
    /\ is_ty_var(proj_self_ty(Top.goal.self_ty))

\* C32: validating an alias bound of a projection whose owning trait reference
\* has an unresolved type variable as self type answers Maybe(Ambiguous)
\* without constraints at once: no param-env, alias-bound or builtin candidate
\* is assembled for the trait goal, no collaborator is asked and no call is
\* made.
C32_TyVarOwnerIsAmbiguous ==
    [][AtTyVarOwner =>
          /\ status' = "running"
          /\ db' = db
          /\ Len(stack') = Len(stack)
          /\ stack'[Len(stack)].validations = Top.validations
          /\ stack'[Len(stack)].candidates =
                Append(Top.candidates, Candidate(AliasBound, AmbiguousResponse))]_vars

C32_Witness ==
    /\ last = "validate_ty_var"
    /\ At("alias_bound", "loop")
    /\ Top.goal.self_ty = Proj(1, "TyVar")
    /\ Top.validations = <<>>
    /\ Len(Top.candidates) = 2
    /\ Top.candidates[2] = Candidate(AliasBound, AmbiguousResponse)

\* ------------------------------------------- claims: the empty subset

NoParamEnvCandidate ==
    \A i \in 1..Len(m_cands) :
        m_cands[i].source.kind \notin {"ParamEnv", "AliasBound"}

AllDisagree ==
    \/ m_cands = <<>>
    \/ \E i, j \in 1..Len(m_cands) : m_cands[i].result # m_cands[j].result

\* C33: in Normal mode, when the responses of all candidates do not merge
\* (there are none, or two of them differ) and no candidate has source
\* ParamEnv(_) or AliasBound, merge_candidates reaches the merge of the
\* subset and ends in the flounder outcome of all responses: NoSolution for
\* no candidates, the ambiguous response without constraints otherwise.
\* The result is never a response with certainty Yes.
C33_EmptySubsetFlounders ==
    (m_pc = "done" /\ mode = Normal /\ AllDisagree /\ NoParamEnvCandidate) =>
        /\ m_out.consulted
        /\ m_out.result = flounder(AllResponses)
        /\ IF m_cands = <<>>
           THEN m_out.result = NoSolution
           ELSE m_out.result = Ok([certainty |-> MaybeAmbiguity, constraints |-> "none"])
        /\ IsOk(m_out.result) => m_out.result.resp.certainty # Yes

C33_Witness ==
    /\ m_pc = "done"
    /\ mode = Normal
    /\ Len(m_cands) = 2
    /\ NoParamEnvCandidate
    /\ m_cands[1].result # m_cands[2].result
    /\ m_cands[1].result.certainty = Yes
    /\ m_cands[2].result.certainty = Yes
    /\ m_out.consulted
    /\ m_out.result = Ok([certainty |-> MaybeAmbiguity, constraints |-> "none"])

\* ------------------------------------ received file descriptors: data model

\* size_of::<RawFd>()
FD_SIZE == 4
\* libc::SOL_SOCKET and libc::SCM_RIGHTS on Linux
SOL_SOCKET == 1
SCM_RIGHTS == 1

\* The bytes of a slice of file descriptors, as add_file_descriptors reads it.
fds_as_bytes(fds) == Flatten([i \in 1..Len(fds) |-> to_ne_bytes(fds[i], FD_SIZE)])

\* AncillaryData::add_file_descriptors: one SCM_RIGHTS message of the fds.
AncillaryData_add_file_descriptors(a, borrowed_fds) ==
    LET data == fds_as_bytes(borrowed_fds)
        cmsg == ControlMessage_new(SOL_SOCKET, SCM_RIGHTS, data)
    IN AncillaryData_add_cmsg(a, cmsg)

\* AncillaryDataBuf::add_file_descriptors.
AncillaryDataBuf_add_file_descriptors(v, borrowed_fds) ==
    LET data == fds_as_bytes(borrowed_fds)
        cmsg == ControlMessage_new(SOL_SOCKET, SCM_RIGHTS, data)
    IN AncillaryDataBuf_add_cmsg(v, cmsg)

\* AncillaryDataBuf::to_ancillary_data on a Vec with contents v and the given
\* capacity: the Vec is cleared and its whole capacity is lent out; the bytes
\* past the old length are whatever the allocation holds (fill).
AncillaryDataBuf_to_ancillary_data(v, capacity, fill) ==
    LET cmsgs_len == Len(v)
    IN [cmsgs_buf |-> v \o [k \in 1..(capacity - cmsgs_len) |-> fill],
        cmsgs_len |-> cmsgs_len,
        cmsgs_buf_fully_initialized |-> FALSE,
        scm_rights_received |-> FALSE,
        scm_rights_max_len |-> None]

\* AncillaryData::cmsgs_buf_mut / cmsgs_buf: `[..self.cmsgs_len]`.
cmsgs_buf_in_bounds(a) == SliceInBounds(a.cmsgs_buf, a.cmsgs_len)

\* A mutable sub-slice of cmsgs_buf: the bytes from (exclusive) .. to.
Slice(from, to) == [some |-> TRUE, from |-> from, to |-> to]
NoSlice == [some |-> FALSE, from |-> 0, to |-> 0]

\* AncillaryData::received_fds: the iterator's buffer, or a panic.
AncillaryData_received_fds(a) ==
    IF ~a.scm_rights_received THEN [panic |-> FALSE, buf |-> NoSlice]
    ELSE IF ~a.scm_rights_max_len.some THEN [panic |-> TRUE, buf |-> NoSlice]
    ELSE LET max_len == a.scm_rights_max_len.val
         IN IF ~cmsgs_buf_in_bounds(a) \/ max_len > a.cmsgs_len
            THEN [panic |-> TRUE, buf |-> NoSlice]
            ELSE [panic |-> FALSE, buf |-> Slice(0, max_len)]

\* Mutant: the buffer is lent out without resetting scm_rights_received.
AncillaryData_control_messages_buf_keeps_received(a) ==
    IF Len(a.cmsgs_buf) = 0 THEN [panic |-> FALSE, some |-> FALSE, ad |-> a]
    ELSE [panic |-> FALSE, some |-> TRUE,
          ad |-> [a EXCEPT !.cmsgs_buf = slice_to(@, a.cmsgs_len)
                                             \o Zeroes(Len(@) - a.cmsgs_len),
                           !.cmsgs_buf_fully_initialized = TRUE,
                           !.cmsgs_len = 0,
                           !.scm_rights_max_len = None]]
\* AncillaryData::control_messages_buf: None for a buffer of length zero;
\* otherwise the spare capacity is zeroed, the fields are reset and the whole
\* buffer is returned.
AncillaryData_control_messages_buf(a) ==
    IF Len(a.cmsgs_buf) = 0 THEN [panic |-> FALSE, some |-> FALSE, ad |-> a]
    ELSE IF ~cmsgs_buf_in_bounds(a) THEN [panic |-> TRUE, some |-> FALSE, ad |-> a]
    ELSE [panic |-> FALSE, some |-> TRUE,
          ad |-> [a EXCEPT !.cmsgs_buf = slice_to(@, a.cmsgs_len)
                                             \o Zeroes(Len(@) - a.cmsgs_len),
                           !.cmsgs_buf_fully_initialized = TRUE,
                           !.cmsgs_len = 0,
                           !.scm_rights_received = FALSE,
                           !.scm_rights_max_len = None]]

\* Mutant: the length is not compared with the buffer.
AncillaryData_set_control_messages_len_unchecked(a, len) ==
    IF ~a.cmsgs_buf_fully_initialized THEN [panic |-> TRUE, ad |-> a]
    ELSE [panic |-> FALSE,
          ad |-> [a EXCEPT !.cmsgs_len = IF Len(a.cmsgs_buf) > 0 THEN len ELSE @,
                           !.cmsgs_buf_fully_initialized =
                               IF Len(a.cmsgs_buf) > 0 THEN FALSE ELSE @,
                           !.scm_rights_max_len = Some(len)]]
\* Mutant: the buffer still counts as fully initialized afterwards.
AncillaryData_set_control_messages_len_stays_initialized(a, len) ==
    IF ~(Len(a.cmsgs_buf) >= len) THEN [panic |-> TRUE, ad |-> a]
    ELSE IF ~a.cmsgs_buf_fully_initialized THEN [panic |-> TRUE, ad |-> a]
    ELSE [panic |-> FALSE,
          ad |-> [a EXCEPT !.cmsgs_len = IF Len(a.cmsgs_buf) > 0 THEN len ELSE @,
                           !.scm_rights_max_len = Some(len)]]
\* AncillaryData::set_control_messages_len: two assertions, then the fields.
AncillaryData_set_control_messages_len(a, len) ==
    IF ~(Len(a.cmsgs_buf) >= len) THEN [panic |-> TRUE, ad |-> a]
    ELSE IF ~a.cmsgs_buf_fully_initialized THEN [panic |-> TRUE, ad |-> a]
    ELSE [panic |-> FALSE,
          ad |-> [a EXCEPT !.cmsgs_len = IF Len(a.cmsgs_buf) > 0 THEN len ELSE @,
                           !.cmsgs_buf_fully_initialized =
                               IF Len(a.cmsgs_buf) > 0 THEN FALSE ELSE @,
                           !.scm_rights_max_len = Some(len)]]

\* AncillaryData::take_ownership_of_scm_rights: one assertion, one flag.
AncillaryData_take_ownership_of_scm_rights(a) ==
    IF ~a.scm_rights_max_len.some THEN [panic |-> TRUE, ad |-> a]
    ELSE [panic |-> FALSE, ad |-> [a EXCEPT !.scm_rights_received = TRUE]]

\* AncillaryDataReceivedFds::is_scm_rights
is_scm_rights(cmsg) == cmsg.cmsg_level = SOL_SOCKET /\ cmsg.cmsg_type = SCM_RIGHTS

NoScmRights(panic) ==
    [panic |-> panic, some |-> FALSE, skipped |-> 0, cmsg_size |-> 0, data_len |-> 0]

\* AncillaryDataReceivedFds::advance_to_next_scm_rights: how many bytes of buf
\* were skipped before an SCM_RIGHTS message with data, the space and the
\* data length of that message.  advance_past is the body of the loop for
\* what ControlMessagesIter::next returned (n).
RECURSIVE advance_to_next_scm_rights(_)
advance_past(buf, n) ==
    IF n.panic THEN NoScmRights(TRUE)
    ELSE IF ~n.item.some THEN NoScmRights(FALSE)
    ELSE LET cmsg == n.item.val
             cmsg_size == cmsg_space(cmsg)
             data_len == Len(cmsg.data)
         IN IF is_scm_rights(cmsg) /\ data_len > 0
            THEN [panic |-> FALSE, some |-> TRUE, skipped |-> 0,
                  cmsg_size |-> cmsg_size, data_len |-> data_len]
            ELSE IF ~SliceInBounds(buf, cmsg_size) THEN NoScmRights(TRUE)
            ELSE LET r == advance_to_next_scm_rights(slice_from(buf, cmsg_size))
                 IN [r EXCEPT !.skipped = IF r.some THEN @ + cmsg_size ELSE @]
advance_to_next_scm_rights(buf) == advance_past(buf, ControlMessagesIter_next(buf))

NoChunk == [some |-> FALSE, at |-> 0]

\* AncillaryDataReceivedFds::next_owned_fd: the offset in data of the first
\* whole chunk of FD_SIZE bytes that is not -1.
RECURSIVE next_owned_fd(_)
next_owned_fd(data) ==
    IF FD_SIZE > Len(data) THEN NoChunk
    ELSE LET chunk == slice_to(data, FD_SIZE)
         IN IF c_int_from_ne_bytes(chunk) # -1 THEN [some |-> TRUE, at |-> 0]
            ELSE LET r == next_owned_fd(slice_from(data, FD_SIZE))
                 IN IF r.some THEN [some |-> TRUE, at |-> r.at + FD_SIZE] ELSE NoChunk

NoFd(panic) ==
    [panic |-> panic, some |-> FALSE, skipped |-> 0, fd_at |-> 0, raw_fd |-> 0,
     buf |-> <<>>]

\* Mutant: the slot of a yielded fd keeps its bytes.
mark_as_taken_forgotten(b, at) == b
\* take_next_fd, `fd_buf.clone_from_slice(&mark_as_taken.to_ne_bytes())`: the
\* FD_SIZE bytes at offset at of b are overwritten with -1.
mark_as_taken(b, at) ==
    slice_to(b, at) \o to_ne_bytes(-1, FD_SIZE) \o slice_from(b, at + FD_SIZE)

\* AncillaryDataReceivedFds::take_next_fd: how many bytes of buf are left
\* behind, where in buf the fd taken was, its value, and the bytes of the
\* buffer returned, in which the slot of the fd holds -1.  take_fd_of is the
\* body of the loop for what advance_to_next_scm_rights returned (a).
RECURSIVE take_next_fd(_)
take_fd_of(buf, a) ==
    IF a.panic THEN NoFd(TRUE)
    ELSE IF ~a.some THEN NoFd(FALSE)
    ELSE LET b == slice_from(buf, a.skipped)
             scm_rights == SubSeq(b, CMSGHDR_SIZE + 1, CMSGHDR_SIZE + a.data_len)
             fd == next_owned_fd(scm_rights)
         IN IF ~fd.some
            THEN IF ~SliceInBounds(b, a.cmsg_size) THEN NoFd(TRUE)
                 ELSE LET r == take_next_fd(slice_from(b, a.cmsg_size))
                      IN IF r.some
                         THEN [r EXCEPT !.skipped = @ + a.skipped + a.cmsg_size,
                                        !.fd_at = @ + a.skipped + a.cmsg_size]
                         ELSE r
            ELSE LET at == CMSGHDR_SIZE + fd.at
                 IN [panic |-> FALSE, some |-> TRUE, skipped |-> a.skipped,
                     fd_at |-> a.skipped + at,
                     raw_fd |-> c_int_from_ne_bytes(SubSeq(b, at + 1, at + FD_SIZE)),
                     buf |-> mark_as_taken(b, at)]
take_next_fd(buf) == take_fd_of(buf, advance_to_next_scm_rights(buf))

\* ---------------------------------- received file descriptors: specification

\* Most calls of control_messages_buf() on one AncillaryData.
MaxLends == 2
\* Most received_fds() iterators between two calls of control_messages_buf().
MaxIterators == 2

\* Lengths of the buffers handed to AncillaryData::new.
RxCapacities == {0, 20, 48}
\* Lengths given to set_control_messages_len.
RxLens == {0, 20, 24, 48, 56}
\* File descriptors given to add_file_descriptors.
RxFds == {<<3, 4>>}

WireCmsg(len, level, type, data) ==
    cmsghdr_to_bytes([cmsg_len |-> len, cmsg_level |-> level, cmsg_type |-> type])
        \o data

\* What recvmsg() writes into the buffer of control_messages_buf(): two fds;
\* a slot of -1 before an fd; a message of another type before one fd; one fd
\* and a fragment of a second; one fd in a buffer with no room for padding.
Received ==
    { WireCmsg(24, SOL_SOCKET, SCM_RIGHTS, fds_as_bytes(<<5, 6>>)),
      WireCmsg(24, SOL_SOCKET, SCM_RIGHTS, fds_as_bytes(<<-1, 7>>)),
      WireCmsg(24, SOL_SOCKET, 2, <<9, 0, 0, 0, 9, 0, 0, 0>>)
          \o WireCmsg(20, SOL_SOCKET, SCM_RIGHTS, fds_as_bytes(<<5>>)) \o Zeroes(4),
      WireCmsg(22, SOL_SOCKET, SCM_RIGHTS, fds_as_bytes(<<5>>) \o <<6, 0>>) \o Zeroes(2),
      WireCmsg(20, SOL_SOCKET, SCM_RIGHTS, fds_as_bytes(<<5>>)) }

\* An AncillaryData over a caller's buffer, or an AncillaryDataBuf that will
\* be turned into one.
InitReceive ==
    /\ \/ \E cap \in RxCapacities, fill \in FreshFill :
             /\ ad = AncillaryData_new([k \in 1..cap |-> fill])
             /\ rx = [RxIdle EXCEPT !.origin = "new", !.op = "new", !.outcome = "ok"]
       \/ /\ ad = AncillaryData_new(<<>>)
          /\ rx = [RxIdle EXCEPT !.origin = "AncillaryDataBuf"]
    /\ adb = <<>>
    /\ added = NothingAdded("none")
    /\ add_result = "none"
    /\ iter = IterIdle
    /\ mode = Normal
    /\ SolverIdle
    /\ MergerIdle

RxRest == <<added, add_result, iter, mode, solver, merger, client>>

\* There is an AncillaryData, no call on it has panicked, and no iterator
\* over its received fds holds it borrowed.
RxReady ==
    /\ rx.origin \in {"new", "to_ancillary_data"}
    /\ rx.outcome # "panic"
    /\ ~rx.fds.live

Done(op, arg, outcome) == [rx EXCEPT !.op = op, !.arg = arg, !.outcome = outcome]

\* AncillaryDataBuf::add_file_descriptors, before the conversion.
RxBufAddFileDescriptors ==
    /\ rx.origin = "AncillaryDataBuf"
    /\ rx.outcome # "panic"
    /\ \E fds \in RxFds :
          LET r == AncillaryDataBuf_add_file_descriptors(adb, fds)
          IN /\ Len(r.buf) <= MaxBytes
             /\ adb' = r.buf
             /\ rx' = Done("buf_add_file_descriptors", Len(fds),
                           IF r.result = "panic" THEN "panic" ELSE "ok")
    /\ UNCHANGED <<ad, RxRest>>

\* AncillaryDataBuf::to_ancillary_data.  The capacity of the Vec is its
\* length or more; Vec::new() has capacity 0.
RxToAncillaryData ==
    /\ rx.origin = "AncillaryDataBuf"
    /\ rx.outcome # "panic"
    /\ \E extra \in {0, 24}, fill \in FreshFill :
          /\ Len(adb) + extra <= MaxBytes
          /\ extra = 0 => fill = 0
          /\ ad' = AncillaryDataBuf_to_ancillary_data(adb, Len(adb) + extra, fill)
    /\ adb' = <<>>
    /\ rx' = [Done("to_ancillary_data", 0, "ok") EXCEPT !.origin = "to_ancillary_data"]
    /\ UNCHANGED RxRest

\* AncillaryData::add_file_descriptors.
RxAddFileDescriptors ==
    /\ RxReady
    /\ \E fds \in RxFds :
          LET r == AncillaryData_add_file_descriptors(ad, fds)
          IN /\ ad' = r.ad
             /\ rx' = Done("add_file_descriptors", Len(fds),
                           IF r.result = "Ok" THEN "ok" ELSE r.result)
    /\ UNCHANGED <<adb, RxRest>>

\* AncillaryData::add_control_message with a message that holds no fds.
RxAddControlMessage ==
    /\ RxReady
    /\ LET cmsg == ControlMessage_new(SOL_SOCKET, 2, <<7>>)
           r == AncillaryData_add_cmsg(ad, cmsg)
       IN /\ ad' = r.ad
          /\ rx' = Done("add_control_message", 1,
                        IF r.result = "Ok" THEN "ok" ELSE r.result)
    /\ UNCHANGED <<adb, RxRest>>

\* AncillaryData::control_messages.
RxControlMessages ==
    /\ RxReady
    /\ rx' = Done("control_messages", 0,
                  IF cmsgs_buf_in_bounds(ad) THEN "ok" ELSE "panic")
    /\ UNCHANGED <<ad, adb, RxRest>>

\* AncillaryData::control_messages_buf.
RxControlMessagesBuf ==
    /\ RxReady
    /\ rx.lends < MaxLends
    /\ LET r == AncillaryData_control_messages_buf(ad)
       IN /\ ad' = r.ad
          /\ rx' = [Done("control_messages_buf", 0,
                         IF r.panic THEN "panic" ELSE IF r.some THEN "Some" ELSE "None")
                       EXCEPT !.lends = @ + 1,
                              !.lent_since = IF r.some THEN TRUE ELSE @,
                              !.len_set = IF r.some THEN FALSE ELSE @,
                              !.taken = IF r.some THEN <<>> ELSE @,
                              !.orig = IF r.some THEN <<>> ELSE @,
                              !.fds = IF r.some THEN NoFdsIter ELSE @]
    /\ UNCHANGED <<adb, RxRest>>

\* recvmsg() writes control messages through the slice that
\* control_messages_buf() returned.
RxWrite ==
    /\ RxReady
    /\ rx.op = "control_messages_buf"
    /\ rx.outcome = "Some"
    /\ \E w \in Received :
          /\ Len(w) <= Len(ad.cmsgs_buf)
          /\ ad' = [ad EXCEPT !.cmsgs_buf = w \o slice_from(@, Len(w))]
          /\ rx' = Done("write", Len(w), "ok")
    /\ UNCHANGED <<adb, RxRest>>

\* AncillaryData::set_control_messages_len.
RxSetControlMessagesLen ==
    /\ RxReady
    /\ \E len \in RxLens :
          LET r == AncillaryData_set_control_messages_len(ad, len)
          IN /\ ad' = r.ad
             /\ rx' = [Done("set_control_messages_len", len,
                            IF r.panic THEN "panic" ELSE "ok")
                          EXCEPT !.lent_since = IF r.panic THEN @ ELSE FALSE,
                                 !.len_set = IF r.panic THEN @ ELSE TRUE]
    /\ UNCHANGED <<adb, RxRest>>

\* AncillaryData::take_ownership_of_scm_rights.
RxTakeOwnership ==
    /\ RxReady
    /\ LET r == AncillaryData_take_ownership_of_scm_rights(ad)
       IN /\ ad' = r.ad
          /\ rx' = [Done("take_ownership_of_scm_rights", 0,
                         IF r.panic THEN "panic" ELSE "ok")
                       EXCEPT !.orig = IF r.panic \/ ad.scm_rights_received
                                       THEN @ ELSE ad.cmsgs_buf]
    /\ UNCHANGED <<adb, RxRest>>

\* AncillaryData::received_fds: an iterator that holds the AncillaryData
\* borrowed until it has been drained (its Drop drains it).
RxReceivedFds ==
    /\ RxReady
    /\ rx.fds.count < MaxIterators
    /\ LET r == AncillaryData_received_fds(ad)
       IN rx' = [Done("received_fds", 0, IF r.panic THEN "panic" ELSE "ok")
                    EXCEPT !.fds = [live |-> ~r.panic, buf |-> r.buf,
                                    count |-> @.count + 1]]
    /\ UNCHANGED <<ad, adb, RxRest>>

\* One call of AncillaryDataReceivedFds::next.
RxFdsNext ==
    /\ rx.fds.live
    /\ rx.outcome # "panic"
    /\ LET buf == rx.fds.buf
       IN IF ~buf.some
          THEN /\ rx' = [Done("next", 0, "None") EXCEPT !.fds.live = FALSE]
               /\ ad' = ad
          ELSE \E r \in {take_next_fd(SubSeq(ad.cmsgs_buf, buf.from + 1, buf.to))} :
                  IF r.panic
                  THEN /\ rx' = [Done("next", 0, "panic") EXCEPT !.fds.buf = NoSlice]
                       /\ ad' = ad
                  ELSE IF ~r.some
                  THEN /\ rx' = [Done("next", 0, "None")
                                    EXCEPT !.fds.buf = NoSlice, !.fds.live = FALSE]
                       /\ ad' = ad
                  ELSE /\ ad' = [ad EXCEPT !.cmsgs_buf =
                                     slice_to(@, buf.from + r.skipped) \o r.buf
                                         \o slice_from(@, buf.to)]
                       /\ rx' = [Done("next", 0, "Some")
                                    EXCEPT !.fds.buf = Slice(buf.from + r.skipped, buf.to),
                                           !.taken = Append(@, [at |-> buf.from + r.fd_at,
                                                                fd |-> r.raw_fd])]
    /\ UNCHANGED <<adb, RxRest>>

NextReceive ==
    \/ RxBufAddFileDescriptors
    \/ RxToAncillaryData
    \/ RxAddFileDescriptors
    \/ RxAddControlMessage
    \/ RxControlMessages
    \/ RxControlMessagesBuf
    \/ RxWrite
    \/ RxSetControlMessagesLen
    \/ RxTakeOwnership
    \/ RxReceivedFds
    \/ RxFdsNext

SpecReceive == InitReceive /\ [][NextReceive]_vars

\* ---------------------------------------- claims: the AncillaryData fields

\* C34: in every state that a sequence of AncillaryData operations reaches,
\* cmsgs_len is at most the length of the buffer and scm_rights_max_len, when
\* set, is at most cmsgs_len; control_messages() and received_fds() never
\* panic on a slice.
C34_LengthsInBounds ==
    /\ ad.cmsgs_len <= Len(ad.cmsgs_buf)
    /\ ad.scm_rights_max_len.some => ad.scm_rights_max_len.val <= ad.cmsgs_len
    /\ rx.op \in {"control_messages", "received_fds"} => rx.outcome # "panic"

C34_Witness ==
    /\ rx.op = "received_fds"
    /\ rx.outcome = "ok"
    /\ rx.fds.buf.some
    /\ rx.fds.buf.to = 24
    /\ ad.scm_rights_max_len.some
    /\ ad.scm_rights_max_len.val = 24
    /\ ad.cmsgs_len = 48
    /\ Len(ad.cmsgs_buf) = 48

\* C35 as stated: scm_rights_received implies that scm_rights_max_len is set,
\* so the assertion of received_fds never fails; every control_messages_buf()
\* resets both fields; take_ownership_of_scm_rights is accepted exactly when
\* a length has been set that no control_messages_buf() has reset.
C35_BufAlwaysResets ==
    /\ ad.scm_rights_received => ad.scm_rights_max_len.some
    /\ rx.op = "received_fds" => rx.outcome # "panic"
    /\ (rx.op = "control_messages_buf" /\ rx.outcome # "panic") =>
          ~ad.scm_rights_received /\ ~ad.scm_rights_max_len.some
    /\ rx.op = "take_ownership_of_scm_rights" => (rx.outcome = "ok" <=> rx.len_set)

\* C35 as amended: scm_rights_received implies that scm_rights_max_len is
\* set, so the assertion of received_fds never fails; control_messages_buf()
\* on a buffer that is not empty resets both fields, and on an empty buffer
\* it returns None; take_ownership_of_scm_rights is accepted exactly when a
\* length has been set that no control_messages_buf() has reset.
C35_BufResetsUnlessEmpty ==
    /\ ad.scm_rights_received => ad.scm_rights_max_len.some
    /\ rx.op = "received_fds" => rx.outcome # "panic"
    /\ (rx.op = "control_messages_buf" /\ rx.outcome # "panic") =>
          IF Len(ad.cmsgs_buf) > 0
          THEN rx.outcome = "Some" /\ ~ad.scm_rights_received
                  /\ ~ad.scm_rights_max_len.some
          ELSE rx.outcome = "None"
    /\ rx.op = "take_ownership_of_scm_rights" => (rx.outcome = "ok" <=> rx.len_set)

C35_Witness ==
    /\ rx.op = "received_fds"
    /\ rx.outcome = "ok"
    /\ rx.lends = 2
    /\ Len(ad.cmsgs_buf) > 0
    /\ ad.scm_rights_received
    /\ ad.scm_rights_max_len.some
    /\ rx.fds.buf.some

SetLenStep == rx'.op = "set_control_messages_len" /\ rx' # rx

\* C36: on an AncillaryData whose buffer is not empty,
\* set_control_messages_len(len) is accepted exactly when len is at most the
\* length of the buffer and control_messages_buf() has been called since the
\* AncillaryData was made and since the set_control_messages_len accepted
\* last; a set_control_messages_len that follows another directly fails its
\* assertion.
C36_SetLenNeedsLentBuffer ==
    [][(SetLenStep /\ Len(ad.cmsgs_buf) > 0) =>
          /\ (rx'.outcome = "ok") <=>
                (rx'.arg <= Len(ad.cmsgs_buf) /\ rx.lent_since)
          /\ rx.op = "set_control_messages_len" => rx'.outcome = "panic"
          /\ rx'.outcome = "panic" => ad' = ad]_vars

C36_Witness ==
    /\ rx.op = "set_control_messages_len"
    /\ rx.outcome = "panic"
    /\ Len(ad.cmsgs_buf) > 0
    /\ rx.arg <= Len(ad.cmsgs_buf)
    /\ ~rx.lent_since
    /\ rx.lends = 1
    /\ ad.scm_rights_max_len.some

\* C37: on an AncillaryData whose buffer has length zero, made by
\* AncillaryData::new or by AncillaryDataBuf::to_ancillary_data,
\* control_messages_buf() returns None, and the set_control_messages_len(0)
\* that follows it is accepted.
C37_EmptyBufferIsAccepted ==
    [][(Len(ad.cmsgs_buf) = 0 /\ rx.origin \in {"new", "to_ancillary_data"}) =>
          /\ (rx'.op = "control_messages_buf" /\ rx' # rx) => rx'.outcome = "None"
          /\ (rx.op = "control_messages_buf" /\ SetLenStep /\ rx'.arg = 0) =>
                rx'.outcome = "ok"]_vars

\* ------------------------------------------ claims: received descriptors

\* The offsets of the whole fd slots of the SCM_RIGHTS messages of bytes, as
\* control_messages() enumerates the messages.
RECURSIVE ScmRightsSlots(_, _)
ScmRightsSlots(bytes, base) ==
    LET n == ControlMessagesIter_next(bytes)
    IN IF n.panic \/ ~n.item.some THEN {}
       ELSE LET cmsg == n.item.val
                here == IF is_scm_rights(cmsg)
                        THEN {base + CMSGHDR_SIZE + FD_SIZE * k :
                                 k \in 0..((Len(cmsg.data) \div FD_SIZE) - 1)}
                        ELSE {}
            IN here \cup ScmRightsSlots(n.bytes, base + Len(bytes) - Len(n.bytes))

SlotValue(bytes, at) == c_int_from_ne_bytes(SubSeq(bytes, at + 1, at + FD_SIZE))

\* C38: over all received_fds() iterators made after
\* take_ownership_of_scm_rights, every fd yielded comes from a whole slot of
\* an SCM_RIGHTS message of the received bytes, a slot that held the value
\* yielded and not -1; the slot holds -1 afterwards; and no slot is yielded
\* twice.
C38_EachSlotAtMostOnce ==
    rx.taken # <<>> =>
        LET slots == ScmRightsSlots(slice_to(rx.orig, ad.scm_rights_max_len.val), 0)
        IN /\ ad.scm_rights_max_len.some
           /\ \A i \in 1..Len(rx.taken) :
                 /\ rx.taken[i].at \in slots
                 /\ rx.taken[i].fd = SlotValue(rx.orig, rx.taken[i].at)
                 /\ rx.taken[i].fd # -1
                 /\ SlotValue(ad.cmsgs_buf, rx.taken[i].at) = -1
           /\ \A i, j \in 1..Len(rx.taken) :
                 i # j => rx.taken[i].at # rx.taken[j].at

C38_Witness ==
    /\ rx.op = "next"
    /\ rx.outcome = "None"
    /\ rx.fds.count = 2
    /\ ~rx.fds.live
    /\ Len(rx.taken) = 2
    /\ rx.taken[1].fd = 5
    /\ rx.taken[2].fd = 6

====
